---- MODULE Spec2Model ----
(***************************************************************************)
(* Model of the NEXUS AI demo authentication module (js/auth.js) and the   *)
(* form handlers that call it (js/validation.js).                          *)
(*                                                                         *)
(* JavaScript strings on which the code works character by character       *)
(* (emails, passwords) are sequences of one-character strings.  Strings    *)
(* that are only compared or copied (roles, types, names, messages, keys)  *)
(* are TLA+ strings.  Array indices are 1-based; findIndex returns 0 where *)
(* JavaScript returns -1.                                                  *)
(***************************************************************************)
EXTENDS Integers, Sequences, FiniteSets, TLC

(***************************************************************************)
(* Bounds of the model.                                                    *)
(***************************************************************************)
\* number of clock advances in one behaviour
MaxTicks == 2

(***************************************************************************)
(* String literals of the source and of the inputs.                        *)
(***************************************************************************)
EMAIL_SUPERADMIN == <<"s", "u", "p", "e", "r", "a", "d", "m", "i", "n", "@", "i", "n", "t", "u", "v", "i", "a", ".", "c", "o", "m">>
EMAIL_ADMIN == <<"a", "d", "m", "i", "n", "@", "i", "n", "t", "u", "v", "i", "a", ".", "c", "o", "m">>
EMAIL_VIEWER == <<"v", "i", "e", "w", "e", "r", "@", "i", "n", "t", "u", "v", "i", "a", ".", "c", "o", "m">>
EMAIL_USER == <<"u", "s", "e", "r", "@", "e", "x", "a", "m", "p", "l", "e", ".", "c", "o", "m">>
EMAIL_ORGANIZER == <<"o", "r", "g", "a", "n", "i", "z", "e", "r", "@", "e", "x", "a", "m", "p", "l", "e", ".", "c", "o", "m">>
PW_ADMIN == <<"A", "d", "m", "i", "n", "@", "1", "2", "3">>
PW_VIEWER == <<"V", "i", "e", "w", "e", "r", "@", "1", "2", "3">>
PW_USER == <<"U", "s", "e", "r", "@", "1", "2", "3">>
PW_ORGANIZER == <<"O", "r", "g", "a", "n", "i", "z", "e", "r", "@", "1", "2", "3">>

\* inputs that are not in the source: a case variant of a seeded email, an
\* unknown email, a case variant of a seeded password, a new password
EMAIL_USER_UPPER == <<"U", "s", "e", "r", "@", "E", "x", "a", "m", "p", "l", "e", ".", "C", "O", "M">>
EMAIL_NOBODY == <<"n", "o", "b", "o", "d", "y", "@", "e", "x", "a", "m", "p", "l", "e", ".", "c", "o", "m">>
PW_USER_LOWER == <<"u", "s", "e", "r", "@", "1", "2", "3">>
PW_NEW == <<"N", "e", "w", "P", "a", "s", "s", "1", "!">>

\* the email of the user loginWithGoogle makes up, and the domains given to
\* loginWithSSO
EMAIL_GOOGLE == <<"g", "o", "o", "g", "l", "e", ".", "u", "s", "e", "r", "@", "g", "m", "a", "i", "l", ".", "c", "o", "m">>
DOMAIN_INTUVIA == <<"i", "n", "t", "u", "v", "i", "a", ".", "c", "o", "m">>
DOMAIN_INTUVIA_UPPER == <<"I", "n", "t", "u", "v", "i", "a", ".", "c", "o", "m">>
DOMAIN_EXAMPLE == <<"e", "x", "a", "m", "p", "l", "e", ".", "c", "o", "m">>
DOMAIN_NOMATCH == <<"n", "o", "m", "a", "t", "c", "h", ".", "c", "o", "m">>

\* values typed into the login form that are no email and no password
EMAIL_MALFORMED == <<"u", "s", "e", "r", ".", "e", "x", "a", "m", "p", "l", "e", ".", "c", "o", "m">>
EMAIL_USER_SPACE == <<"u", "s", "e", "r", "@", "e", "x", "a", "m", "p", "l", "e", ".", "c", "o", "m", " ">>
PW_BLANK == <<" ", " ">>

UPPER == <<"A", "B", "C", "D", "E", "F", "G", "H", "I", "J", "K", "L", "M", "N", "O", "P", "Q", "R", "S", "T", "U", "V", "W", "X", "Y", "Z">>
LOWER == <<"a", "b", "c", "d", "e", "f", "g", "h", "i", "j", "k", "l", "m", "n", "o", "p", "q", "r", "s", "t", "u", "v", "w", "x", "y", "z">>

\* String.prototype.toLowerCase on the ASCII alphabet of the model
toLowerCaseChar(c) ==
    IF \E i \in 1..Len(UPPER) : UPPER[i] = c
    THEN LOWER[CHOOSE i \in 1..Len(UPPER) : UPPER[i] = c]
    ELSE c

\* the characters of the model's strings, and toLowerCaseChar tabulated on them
Chars ==
    {UPPER[i] : i \in 1..Len(UPPER)} \cup {LOWER[i] : i \in 1..Len(LOWER)}
    \cup {"0", "1", "2", "3", "4", "5", "6", "7", "8", "9", "@", ".", "!", " "}

LowerTable == [c \in Chars |-> toLowerCaseChar(c)]

toLowerCase(s) == [i \in 1..Len(s) |-> LowerTable[s[i]]]

(***************************************************************************)
(* js/auth.js: constants.                                                  *)
(***************************************************************************)
DEMO_USERS_INIT ==
    << [email |-> EMAIL_SUPERADMIN, password |-> PW_ADMIN, role |-> "Super Admin", type |-> "enterprise", name |-> "John Smith"],
       [email |-> EMAIL_ADMIN, password |-> PW_ADMIN, role |-> "Admin", type |-> "enterprise", name |-> "Sarah Johnson"],
       [email |-> EMAIL_VIEWER, password |-> PW_VIEWER, role |-> "Viewer", type |-> "enterprise", name |-> "Mike Wilson"],
       [email |-> EMAIL_USER, password |-> PW_USER, role |-> "Attendee", type |-> "normal", name |-> "Emily Davis"],
       [email |-> EMAIL_ORGANIZER, password |-> PW_ORGANIZER, role |-> "Organizer", type |-> "normal", name |-> "Alex Brown"] >>

SESSION_KEY == "nexus_ai_session"
USERS_KEY == "nexus_ai_users"
RESET_TOKEN_KEY == "nexus_reset_token"

\* 24 * 60 * 60 * 1000 and 30 * 60 * 1000 milliseconds
SESSION_TTL == 24 * 60 * 60 * 1000
RESET_TTL == 30 * 60 * 1000

\* the JavaScript value null
null == [isNull |-> TRUE]

\* localStorage.getItem of a key that holds nothing (the code only tests it
\* for truthiness)
NoItem == << >>

(***************************************************************************)
(* Conversions.  A JSON text of an object is the sequence of its           *)
(* <<key, value>> members; a JSON text of an array is the sequence of the  *)
(* texts of its elements.  An ISO timestamp is <<days, milliseconds of the *)
(* day>> since the epoch.                                                  *)
(***************************************************************************)
JSON_KEYS == <<"email", "password", "role", "type", "name", "photoURL", "token", "loginTime", "expiresAt">>

JSON_stringify(obj) ==
    LET IsKey(k) == k \in DOMAIN obj
        ks == SelectSeq(JSON_KEYS, IsKey)
    IN  [i \in 1..Len(ks) |-> <<ks[i], obj[ks[i]]>>]

JSON_parse(text) ==
    [k \in {text[i][1] : i \in 1..Len(text)} |->
        text[CHOOSE i \in 1..Len(text) : text[i][1] = k][2]]

JSON_stringify_array(arr) == [i \in 1..Len(arr) |-> JSON_stringify(arr[i])]

JSON_parse_array(text) == [i \in 1..Len(text) |-> JSON_parse(text[i])]

MS_PER_DAY == 86400000

toISOString(ms) == <<ms \div MS_PER_DAY, ms % MS_PER_DAY>>

DateParse(iso) == iso[1] * MS_PER_DAY + iso[2]

(***************************************************************************)
(* State.                                                                  *)
(***************************************************************************)
VARIABLES
    localStorage,   \* key -> JSON text, or NoItem
    DEMO_USERS,     \* the in-memory seed array of the loaded page
    now,            \* Date.now(), in milliseconds
    ticks,          \* number of clock advances so far
    inbox,          \* the two reset links handed out last, newest first: token, time received
    last,           \* the last call: operation, arguments, returned value
    timers,         \* the setTimeout callbacks not yet run, in order of registration
    inputs,         \* the values of the input elements of the forms
    page,           \* the reset-password page: its token and whether its form is enabled
    firebase,       \* Firebase: the auth object, the signed-in account, the pending calls
    loginPage       \* the login page: whether its submit handler is registered, and signInBtn.disabled

vars == <<localStorage, DEMO_USERS, now, ticks, inbox, last, timers, inputs, page,
          firebase, loginPage>>

(***************************************************************************)
(* js/auth.js: the operations, as functions of the state they read.        *)
(***************************************************************************)
\* users.find / users.findIndex with the test
\* u => u.email.toLowerCase() === email.toLowerCase():
\* the first index that satisfies it, else 0
findIndexByEmail(users, email) ==
    LET hits == {i \in 1..Len(users) : toLowerCase(users[i].email) = toLowerCase(email)}
    IN  IF hits = {} THEN 0 ELSE CHOOSE i \in hits : \A j \in hits : i <= j

getUsers(ls, demo) ==
    IF ls[USERS_KEY] # NoItem THEN JSON_parse_array(ls[USERS_KEY]) ELSE demo

saveUsers(ls, users) ==
    [ls EXCEPT ![USERS_KEY] = JSON_stringify_array(users)]

\* mutant: the seed list is written at every call
initAuth_Reseed(ls, demo) ==
    [ls EXCEPT ![USERS_KEY] = JSON_stringify_array(demo)]

initAuth(ls, demo) ==
    IF ls[USERS_KEY] = NoItem
    THEN [ls EXCEPT ![USERS_KEY] = JSON_stringify_array(demo)]
    ELSE ls

\* mutant: the email is compared without folding the letter case
validateLogin_CaseSensitive(ls, demo, email, password) ==
    LET users == getUsers(ls, demo)
        hits == {i \in 1..Len(users) : users[i].email = email}
        idx == IF hits = {} THEN 0 ELSE CHOOSE i \in hits : \A j \in hits : i <= j
    IN  IF idx = 0
        THEN [success |-> FALSE, error |-> "No account found with this email address."]
        ELSE IF users[idx].password # password
        THEN [success |-> FALSE, error |-> "Invalid email or password. Please try again."]
        ELSE [success |-> TRUE,
              user |-> [email |-> users[idx].email, role |-> users[idx].role,
                        type |-> users[idx].type, name |-> users[idx].name]]

\* mutant: the stored record is returned as it is, password included
validateLogin_WholeRecord(ls, demo, email, password) ==
    LET users == getUsers(ls, demo)
        idx == findIndexByEmail(users, email)
    IN  IF idx = 0
        THEN [success |-> FALSE, error |-> "No account found with this email address."]
        ELSE IF users[idx].password # password
        THEN [success |-> FALSE, error |-> "Invalid email or password. Please try again."]
        ELSE [success |-> TRUE, user |-> users[idx]]

validateLogin(ls, demo, email, password) ==
    LET users == getUsers(ls, demo)
        idx == findIndexByEmail(users, email)
    IN  IF idx = 0
        THEN [success |-> FALSE, error |-> "No account found with this email address."]
        ELSE IF users[idx].password # password
        THEN [success |-> FALSE, error |-> "Invalid email or password. Please try again."]
        ELSE [success |-> TRUE,
              user |-> [email |-> users[idx].email, role |-> users[idx].role,
                        type |-> users[idx].type, name |-> users[idx].name]]

\* mutant: a session already in the slot is kept
createSession_KeepExisting(ls, user, t, tNow) ==
    LET session == ("loginTime" :> toISOString(t))
                   @@ ("expiresAt" :> toISOString(tNow + SESSION_TTL))
                   @@ user
    IN  IF ls[SESSION_KEY] # NoItem
        THEN ls
        ELSE [ls EXCEPT ![SESSION_KEY] = JSON_stringify(session)]

\* the clock is read twice: t is the value of new Date() for loginTime, tNow
\* the value of the later Date.now() for expiresAt
createSession(ls, user, t, tNow) ==
    LET session == ("loginTime" :> toISOString(t))
                   @@ ("expiresAt" :> toISOString(tNow + SESSION_TTL))
                   @@ user
    IN  [ls EXCEPT ![SESSION_KEY] = JSON_stringify(session)]

\* mutant: every slot of the storage is emptied
logout_ClearAll(ls) == [k \in DOMAIN ls |-> NoItem]

logout(ls) == [ls EXCEPT ![SESSION_KEY] = NoItem]

\* mutant: a session is expired from the instant of its expiry on
getSession_ExpiryInclusive(ls, t) ==
    IF ls[SESSION_KEY] = NoItem
    THEN [ret |-> null, ls |-> ls]
    ELSE LET sessionData == JSON_parse(ls[SESSION_KEY])
         IN  IF DateParse(sessionData.expiresAt) <= t
             THEN [ret |-> null, ls |-> logout(ls)]
             ELSE [ret |-> sessionData, ls |-> ls]

\* mutant: the creation time is returned in place of the stored email
getSession_DropsEmail(ls, t) ==
    IF ls[SESSION_KEY] = NoItem
    THEN [ret |-> null, ls |-> ls]
    ELSE LET sessionData == JSON_parse(ls[SESSION_KEY])
         IN  IF DateParse(sessionData.expiresAt) < t
             THEN [ret |-> null, ls |-> logout(ls)]
             ELSE [ret |-> [sessionData EXCEPT !.email = << >>], ls |-> ls]

\* returns the value and the storage it leaves
getSession(ls, t) ==
    IF ls[SESSION_KEY] = NoItem
    THEN [ret |-> null, ls |-> ls]
    ELSE LET sessionData == JSON_parse(ls[SESSION_KEY])
         IN  IF DateParse(sessionData.expiresAt) < t
             THEN [ret |-> null, ls |-> logout(ls)]
             ELSE [ret |-> sessionData, ls |-> ls]

\* mutant: a session in the slot counts, expired or not
isLoggedIn_IgnoresExpiry(ls, t) ==
    [ret |-> ls[SESSION_KEY] # NoItem, ls |-> ls]

isLoggedIn(ls, t) ==
    [ret |-> getSession(ls, t).ret # null, ls |-> getSession(ls, t).ls]

getUserRole(ls, t) ==
    LET session == getSession(ls, t)
    IN  [ret |-> IF session.ret # null THEN [value |-> session.ret.role] ELSE null,
         ls |-> session.ls]

getUserType(ls, t) ==
    LET session == getSession(ls, t)
    IN  [ret |-> IF session.ret # null THEN [value |-> session.ret.type] ELSE null,
         ls |-> session.ls]

\* the digits of Number.prototype.toString(36)
Digits36 ==
    <<"0", "1", "2", "3", "4", "5", "6", "7", "8", "9", "a", "b", "c", "d", "e", "f",
      "g", "h", "i", "j", "k", "l", "m", "n", "o", "p", "q", "r", "s", "t", "u", "v",
      "w", "x", "y", "z">>

\* n.toString(36) for an integer n >= 0
RECURSIVE toString36(_)
toString36(n) ==
    IF n < 36
    THEN <<Digits36[n + 1]>>
    ELSE Append(toString36(n \div 36), Digits36[(n % 36) + 1])

RESET_PREFIX == <<"r", "e", "s", "e", "t", "_">>

\* 'reset_' + Math.random().toString(36).substr(2, 9) + Date.now().toString(36):
\* rnd is Math.random().toString(36).substr(2, 9), at most nine digits; the
\* three texts are concatenated, so the token does not tell where the random
\* digits end and the digits of the time begin
generateResetToken(rnd, t) == RESET_PREFIX \o rnd \o toString36(t)

\* mutant: the email is stored as it was typed, not as the store holds it
handleForgotPassword_GivenEmail(ls, demo, email, rnd, t, tNow) ==
    LET users == getUsers(ls, demo)
        idx == findIndexByEmail(users, email)
        resetToken == generateResetToken(rnd, t)
        resetData == [email |-> email,
                      token |-> resetToken,
                      expiresAt |-> toISOString(tNow + RESET_TTL)]
    IN  IF idx = 0
        THEN [ret |-> [success |-> FALSE, error |-> "No account found with this email address."],
              ls |-> ls]
        ELSE [ret |-> [success |-> TRUE,
                       message |-> "Password reset link sent to your email.",
                       resetUrl |-> <<"reset-password.html?token=", resetToken>>],
              ls |-> [ls EXCEPT ![RESET_TOKEN_KEY] = JSON_stringify(resetData)]]

\* the clock is read twice: by generateResetToken at time t, and for
\* expiresAt at time tNow
handleForgotPassword(ls, demo, email, rnd, t, tNow) ==
    LET users == getUsers(ls, demo)
        idx == findIndexByEmail(users, email)
        resetToken == generateResetToken(rnd, t)
        resetData == [email |-> users[idx].email,
                      token |-> resetToken,
                      expiresAt |-> toISOString(tNow + RESET_TTL)]
    IN  IF idx = 0
        THEN [ret |-> [success |-> FALSE, error |-> "No account found with this email address."],
              ls |-> ls]
        ELSE [ret |-> [success |-> TRUE,
                       message |-> "Password reset link sent to your email.",
                       resetUrl |-> <<"reset-password.html?token=", resetToken>>],
              ls |-> [ls EXCEPT ![RESET_TOKEN_KEY] = JSON_stringify(resetData)]]

\* mutant: the expiry is tested before the token is compared
validateResetToken_ExpiryFirst(ls, token, t) ==
    IF ls[RESET_TOKEN_KEY] = NoItem
    THEN [ret |-> [success |-> FALSE, error |-> "Invalid or expired reset link."], ls |-> ls]
    ELSE LET resetData == JSON_parse(ls[RESET_TOKEN_KEY])
         IN  IF DateParse(resetData.expiresAt) < t
             THEN [ret |-> [success |-> FALSE,
                            error |-> "Reset link has expired. Please request a new one."],
                   ls |-> [ls EXCEPT ![RESET_TOKEN_KEY] = NoItem]]
             ELSE IF token # resetData.token
             THEN [ret |-> [success |-> FALSE, error |-> "Invalid reset link."], ls |-> ls]
             ELSE [ret |-> [success |-> TRUE, email |-> resetData.email], ls |-> ls]

\* mutant: an expired record is reported and left in the slot
validateResetToken_KeepExpired(ls, token, t) ==
    IF ls[RESET_TOKEN_KEY] = NoItem
    THEN [ret |-> [success |-> FALSE, error |-> "Invalid or expired reset link."], ls |-> ls]
    ELSE LET resetData == JSON_parse(ls[RESET_TOKEN_KEY])
         IN  IF token # resetData.token
             THEN [ret |-> [success |-> FALSE, error |-> "Invalid reset link."], ls |-> ls]
             ELSE IF DateParse(resetData.expiresAt) < t
             THEN [ret |-> [success |-> FALSE,
                            error |-> "Reset link has expired. Please request a new one."],
                   ls |-> ls]
             ELSE [ret |-> [success |-> TRUE, email |-> resetData.email], ls |-> ls]

\* mutant: the expiry of the record is not tested
validateResetToken_NeverExpires(ls, token, t) ==
    IF ls[RESET_TOKEN_KEY] = NoItem
    THEN [ret |-> [success |-> FALSE, error |-> "Invalid or expired reset link."], ls |-> ls]
    ELSE LET resetData == JSON_parse(ls[RESET_TOKEN_KEY])
         IN  IF token # resetData.token
             THEN [ret |-> [success |-> FALSE, error |-> "Invalid reset link."], ls |-> ls]
             ELSE [ret |-> [success |-> TRUE, email |-> resetData.email], ls |-> ls]

\* mutant: a successful verification consumes the token
validateResetToken_Consume(ls, token, t) ==
    IF ls[RESET_TOKEN_KEY] = NoItem
    THEN [ret |-> [success |-> FALSE, error |-> "Invalid or expired reset link."], ls |-> ls]
    ELSE LET resetData == JSON_parse(ls[RESET_TOKEN_KEY])
         IN  IF token # resetData.token
             THEN [ret |-> [success |-> FALSE, error |-> "Invalid reset link."], ls |-> ls]
             ELSE IF DateParse(resetData.expiresAt) < t
             THEN [ret |-> [success |-> FALSE,
                            error |-> "Reset link has expired. Please request a new one."],
                   ls |-> [ls EXCEPT ![RESET_TOKEN_KEY] = NoItem]]
             ELSE [ret |-> [success |-> TRUE, email |-> resetData.email],
                   ls |-> [ls EXCEPT ![RESET_TOKEN_KEY] = NoItem]]

validateResetToken(ls, token, t) ==
    IF ls[RESET_TOKEN_KEY] = NoItem
    THEN [ret |-> [success |-> FALSE, error |-> "Invalid or expired reset link."], ls |-> ls]
    ELSE LET resetData == JSON_parse(ls[RESET_TOKEN_KEY])
         IN  IF token # resetData.token
             THEN [ret |-> [success |-> FALSE, error |-> "Invalid reset link."], ls |-> ls]
             ELSE IF DateParse(resetData.expiresAt) < t
             THEN [ret |-> [success |-> FALSE,
                            error |-> "Reset link has expired. Please request a new one."],
                   ls |-> [ls EXCEPT ![RESET_TOKEN_KEY] = NoItem]]
             ELSE [ret |-> [success |-> TRUE, email |-> resetData.email], ls |-> ls]

\* mutant: the password of the first user of the store is replaced
resetPassword_FirstUser(ls, demo, token, newPassword, t) ==
    LET validation == validateResetToken(ls, token, t)
        users == getUsers(validation.ls, demo)
        userIndex == findIndexByEmail(users, validation.ret.email)
        updated == [users EXCEPT ![1].password = newPassword]
    IN  IF ~validation.ret.success
        THEN [ret |-> validation.ret, ls |-> validation.ls, demo |-> demo]
        ELSE IF userIndex = 0
        THEN [ret |-> [success |-> FALSE, error |-> "User not found."],
              ls |-> validation.ls, demo |-> demo]
        ELSE [ret |-> [success |-> TRUE,
                       message |-> "Password changed successfully. Redirecting to login..."],
              ls |-> [saveUsers(validation.ls, updated) EXCEPT ![RESET_TOKEN_KEY] = NoItem],
              demo |-> IF validation.ls[USERS_KEY] = NoItem THEN updated ELSE demo]

\* mutant: the token stays in its slot after the reset
resetPassword_KeepToken(ls, demo, token, newPassword, t) ==
    LET validation == validateResetToken(ls, token, t)
        users == getUsers(validation.ls, demo)
        userIndex == findIndexByEmail(users, validation.ret.email)
        updated == [users EXCEPT ![userIndex].password = newPassword]
    IN  IF ~validation.ret.success
        THEN [ret |-> validation.ret, ls |-> validation.ls, demo |-> demo]
        ELSE IF userIndex = 0
        THEN [ret |-> [success |-> FALSE, error |-> "User not found."],
              ls |-> validation.ls, demo |-> demo]
        ELSE [ret |-> [success |-> TRUE,
                       message |-> "Password changed successfully. Redirecting to login..."],
              ls |-> saveUsers(validation.ls, updated),
              demo |-> IF validation.ls[USERS_KEY] = NoItem THEN updated ELSE demo]

\* mutant: the password of every user is replaced
resetPassword_AllUsers(ls, demo, token, newPassword, t) ==
    LET validation == validateResetToken(ls, token, t)
        users == getUsers(validation.ls, demo)
        userIndex == findIndexByEmail(users, validation.ret.email)
        updated == [i \in 1..Len(users) |-> [users[i] EXCEPT !.password = newPassword]]
    IN  IF ~validation.ret.success
        THEN [ret |-> validation.ret, ls |-> validation.ls, demo |-> demo]
        ELSE IF userIndex = 0
        THEN [ret |-> [success |-> FALSE, error |-> "User not found."],
              ls |-> validation.ls, demo |-> demo]
        ELSE [ret |-> [success |-> TRUE,
                       message |-> "Password changed successfully. Redirecting to login..."],
              ls |-> [saveUsers(validation.ls, updated) EXCEPT ![RESET_TOKEN_KEY] = NoItem],
              demo |-> IF validation.ls[USERS_KEY] = NoItem THEN updated ELSE demo]

\* mutant: only the user whose password was replaced is saved
resetPassword_OnlyChanged(ls, demo, token, newPassword, t) ==
    LET validation == validateResetToken(ls, token, t)
        users == getUsers(validation.ls, demo)
        userIndex == findIndexByEmail(users, validation.ret.email)
        updated == [users EXCEPT ![userIndex].password = newPassword]
    IN  IF ~validation.ret.success
        THEN [ret |-> validation.ret, ls |-> validation.ls, demo |-> demo]
        ELSE IF userIndex = 0
        THEN [ret |-> [success |-> FALSE, error |-> "User not found."],
              ls |-> validation.ls, demo |-> demo]
        ELSE [ret |-> [success |-> TRUE,
                       message |-> "Password changed successfully. Redirecting to login..."],
              ls |-> [saveUsers(validation.ls, <<updated[userIndex]>>)
                         EXCEPT ![RESET_TOKEN_KEY] = NoItem],
              demo |-> IF validation.ls[USERS_KEY] = NoItem THEN updated ELSE demo]

\* getUsers() returns the DEMO_USERS array itself while the users slot is
\* empty, so the assignment to users[userIndex].password then writes into
\* DEMO_USERS
\* mutant: a successful reset also ends the session
resetPassword_EndsSession(ls, demo, token, newPassword, t) ==
    LET validation == validateResetToken(ls, token, t)
        users == getUsers(validation.ls, demo)
        userIndex == findIndexByEmail(users, validation.ret.email)
        updated == [users EXCEPT ![userIndex].password = newPassword]
    IN  IF ~validation.ret.success
        THEN [ret |-> validation.ret, ls |-> validation.ls, demo |-> demo]
        ELSE IF userIndex = 0
        THEN [ret |-> [success |-> FALSE, error |-> "User not found."],
              ls |-> validation.ls, demo |-> demo]
        ELSE [ret |-> [success |-> TRUE,
                       message |-> "Password changed successfully. Redirecting to login..."],
              ls |-> [saveUsers(validation.ls, updated)
                        EXCEPT ![RESET_TOKEN_KEY] = NoItem, ![SESSION_KEY] = NoItem],
              demo |-> IF validation.ls[USERS_KEY] = NoItem THEN updated ELSE demo]

\* mutant: a failed validation also empties the token slot
resetPassword_ClearOnFailure(ls, demo, token, newPassword, t) ==
    LET validation == validateResetToken(ls, token, t)
        users == getUsers(validation.ls, demo)
        userIndex == findIndexByEmail(users, validation.ret.email)
        updated == [users EXCEPT ![userIndex].password = newPassword]
    IN  IF ~validation.ret.success
        THEN [ret |-> validation.ret,
              ls |-> [validation.ls EXCEPT ![RESET_TOKEN_KEY] = NoItem],
              demo |-> demo]
        ELSE IF userIndex = 0
        THEN [ret |-> [success |-> FALSE, error |-> "User not found."],
              ls |-> validation.ls, demo |-> demo]
        ELSE [ret |-> [success |-> TRUE,
                       message |-> "Password changed successfully. Redirecting to login..."],
              ls |-> [saveUsers(validation.ls, updated) EXCEPT ![RESET_TOKEN_KEY] = NoItem],
              demo |-> IF validation.ls[USERS_KEY] = NoItem THEN updated ELSE demo]

resetPassword(ls, demo, token, newPassword, t) ==
    LET validation == validateResetToken(ls, token, t)
        users == getUsers(validation.ls, demo)
        userIndex == findIndexByEmail(users, validation.ret.email)
        updated == [users EXCEPT ![userIndex].password = newPassword]
    IN  IF ~validation.ret.success
        THEN [ret |-> validation.ret, ls |-> validation.ls, demo |-> demo]
        ELSE IF userIndex = 0
        THEN [ret |-> [success |-> FALSE, error |-> "User not found."],
              ls |-> validation.ls, demo |-> demo]
        ELSE [ret |-> [success |-> TRUE,
                       message |-> "Password changed successfully. Redirecting to login..."],
              ls |-> [saveUsers(validation.ls, updated) EXCEPT ![RESET_TOKEN_KEY] = NoItem],
              demo |-> IF validation.ls[USERS_KEY] = NoItem THEN updated ELSE demo]

\* String.prototype.endsWith
endsWith(str, suffix) ==
    /\ Len(suffix) <= Len(str)
    /\ SubSeq(str, Len(str) - Len(suffix) + 1, Len(str)) = suffix

\* the delays of the two setTimeout calls, in milliseconds
SSO_DELAY == 1500
GOOGLE_DELAY == 1500

\* mutant: the users of every type are candidates
loginWithSSO_AnyType(ls, demo, domain) ==
    LET users == getUsers(ls, demo)
        IsEnterprise(u) == endsWith(u.email, <<"@">> \o domain)
        enterpriseUsers == SelectSeq(users, IsEnterprise)
    IN  IF Len(enterpriseUsers) = 0
        THEN [success |-> FALSE, error |-> "No enterprise users found for this domain."]
        ELSE [success |-> TRUE,
              user |-> [email |-> enterpriseUsers[1].email, role |-> enterpriseUsers[1].role,
                        type |-> enterpriseUsers[1].type, name |-> enterpriseUsers[1].name]]

\* mutant: the promise is resolved with null when no user matches
loginWithSSO_ResolvesNull(ls, demo, domain) ==
    LET users == getUsers(ls, demo)
        IsEnterprise(u) == u.type = "enterprise" /\ endsWith(u.email, <<"@">> \o domain)
        enterpriseUsers == SelectSeq(users, IsEnterprise)
    IN  IF Len(enterpriseUsers) = 0
        THEN null
        ELSE [success |-> TRUE,
              user |-> [email |-> enterpriseUsers[1].email, role |-> enterpriseUsers[1].role,
                        type |-> enterpriseUsers[1].type, name |-> enterpriseUsers[1].name]]

\* mutant: the promise is resolved with the stored record of the user
loginWithSSO_WholeRecord(ls, demo, domain) ==
    LET users == getUsers(ls, demo)
        IsEnterprise(u) == u.type = "enterprise" /\ endsWith(u.email, <<"@">> \o domain)
        enterpriseUsers == SelectSeq(users, IsEnterprise)
    IN  IF Len(enterpriseUsers) = 0
        THEN [success |-> FALSE, error |-> "No enterprise users found for this domain."]
        ELSE [success |-> TRUE, user |-> enterpriseUsers[1]]

\* the value the promise of loginWithSSO(domain) is resolved with by the
\* timeout callback, which reads the users at the time it runs
loginWithSSO(ls, demo, domain) ==
    LET users == getUsers(ls, demo)
        IsEnterprise(u) == u.type = "enterprise" /\ endsWith(u.email, <<"@">> \o domain)
        enterpriseUsers == SelectSeq(users, IsEnterprise)
    IN  IF Len(enterpriseUsers) = 0
        THEN [success |-> FALSE, error |-> "No enterprise users found for this domain."]
        ELSE [success |-> TRUE,
              user |-> [email |-> enterpriseUsers[1].email, role |-> enterpriseUsers[1].role,
                        type |-> enterpriseUsers[1].type, name |-> enterpriseUsers[1].name]]

\* a JavaScript string or null taken as a condition: null and '' are falsy
truthy(str) == str # null /\ str # << >>

\* users.find(u => u.email === selectedEmail) and
\* users.find(u => u.type === 'normal'): the first index, else 0
findIndexByExactEmail(users, email) ==
    LET hits == {i \in 1..Len(users) : users[i].email = email}
    IN  IF hits = {} THEN 0 ELSE CHOOSE i \in hits : \A j \in hits : i <= j

findIndexByType(users, type) ==
    LET hits == {i \in 1..Len(users) : users[i].type = type}
    IN  IF hits = {} THEN 0 ELSE CHOOSE i \in hits : \A j \in hits : i <= j

\* mutant: a hint that is not found falls back to the first normal user
loginWithGoogle_FallbackToNormal(ls, demo, selectedEmail) ==
    LET users == getUsers(ls, demo)
        byHint == IF truthy(selectedEmail)
                  THEN findIndexByExactEmail(users, selectedEmail)
                  ELSE 0
        idx == IF byHint # 0 THEN byHint ELSE findIndexByType(users, "normal")
        user == IF idx # 0
                THEN users[idx]
                ELSE [email |-> IF truthy(selectedEmail) THEN selectedEmail ELSE EMAIL_GOOGLE,
                      role |-> "Attendee", type |-> "normal", name |-> "Google User"]
    IN  [success |-> TRUE,
         user |-> [email |-> user.email, role |-> user.role,
                   type |-> user.type, name |-> user.name]]

\* the value the promise of loginWithGoogle(selectedEmail) is resolved with
loginWithGoogle(ls, demo, selectedEmail) ==
    LET users == getUsers(ls, demo)
        idx == IF truthy(selectedEmail)
               THEN findIndexByExactEmail(users, selectedEmail)
               ELSE findIndexByType(users, "normal")
        user == IF idx # 0
                THEN users[idx]
                ELSE [email |-> IF truthy(selectedEmail) THEN selectedEmail ELSE EMAIL_GOOGLE,
                      role |-> "Attendee", type |-> "normal", name |-> "Google User"]
    IN  [success |-> TRUE,
         user |-> [email |-> user.email, role |-> user.role,
                   type |-> user.type, name |-> user.name]]

(***************************************************************************)
(* js/auth.js: the dashboard of a role.                                    *)
(***************************************************************************)
\* the property names every object literal inherits from Object.prototype
ObjectPrototypeKeys ==
    {"constructor", "toString", "toLocaleString", "valueOf", "hasOwnProperty",
     "isPrototypeOf", "propertyIsEnumerable", "__proto__", "__defineGetter__",
     "__defineSetter__", "__lookupGetter__", "__lookupSetter__"}

\* the value of Object.prototype[key]: a function or an object, which is
\* truthy and is not a string of the table
ObjectPrototypeValue(key) == "Object.prototype." \o key

\* dashboards[role] || 'dashboard-user.html': role is the property name the
\* argument converts to ("undefined" for a missing role), and the lookup
\* goes through the prototype of the object literal
getDashboardUrl(role) ==
    CASE role = "Super Admin" -> "dashboard-superadmin.html"
      [] role = "Admin" -> "dashboard-admin.html"
      [] role = "Viewer" -> "dashboard-viewer.html"
      [] role = "Attendee" -> "dashboard-user.html"
      [] role = "Organizer" -> "dashboard-user.html"
      [] role \in ObjectPrototypeKeys -> ObjectPrototypeValue(role)
      [] OTHER -> "dashboard-user.html"

\* href is the page the window is sent to, null when it stays
redirectToDashboard(ls, t) ==
    LET session == getSession(ls, t)
    IN  [href |-> IF session.ret # null
                  THEN [value |-> getDashboardUrl(session.ret.role)]
                  ELSE null,
         ls |-> session.ls]

\* Array.prototype.includes for the value getUserRole returned: null is in
\* no list of role names
includes(arr, userRole) ==
    /\ userRole # null
    /\ \E i \in 1..Len(arr) : arr[i] = userRole.value

\* the session is read twice, by isLoggedIn at time t and by getUserRole at
\* time tRole; href is the page the window is sent to, null when it stays
protectRoute(ls, allowedRoles, t, tRole) ==
    LET loggedIn == isLoggedIn(ls, t)
        userRole == getUserRole(loggedIn.ls, tRole)
    IN  IF ~loggedIn.ret
        THEN [ret |-> FALSE, href |-> [value |-> "index.html"], ls |-> loggedIn.ls]
        ELSE IF Len(allowedRoles) > 0 /\ ~includes(allowedRoles, userRole.ret)
        THEN [ret |-> FALSE, href |-> null, ls |-> userRole.ls]
        ELSE [ret |-> TRUE, href |-> null, ls |-> userRole.ls]

(***************************************************************************)
(* js/validation.js, Firebase part: Google sign-in of the one allowed      *)
(* account.                                                                *)
(***************************************************************************)
ALLOWED_EMAIL ==
    <<"p", "r", "o", "j", "e", "c", "t", "i", "n", "t", "u", "i", "v", "a", "@",
      "g", "m", "a", "i", "l", ".", "c", "o", "m">>

NO_ACCESS == "You don't have access. Please contact admin to create your account."
SIGNIN_CANCELLED == "Sign-in cancelled. Please try again."
SIGNIN_FAILED == "Failed to sign in with Google. Please try again."
POPUP_CLOSED == "auth/popup-closed-by-user"

\* let auth: undefined until initFirebase ran with the SDK loaded; no account
\* signed in; no signInWithGoogle call pending. user is the constant of that
\* name of the last signInWithGoogle call, null before result.user is read
\* no document of the login page, or one whose script returned before it
\* registered the submit handler
NoLoginPage == [handler |-> FALSE, disabled |-> FALSE]

\* pcSignOut is "signOut" while a firebaseSignOut call awaits auth.signOut()
NoFirebase ==
    [auth |-> FALSE, currentUser |-> null, pc |-> "idle", user |-> null,
     pcSignOut |-> "idle"]

\* the error of calling a method of the undefined auth
AuthUndefined(method) ==
    [code |-> "undefined",
     message |-> "Cannot read properties of undefined (reading '" \o method \o "')"]

\* mutant: every account passes the check
signInWithGoogle_denied_Nobody(user) == FALSE

\* the test user.email.toLowerCase() !== ALLOWED_EMAIL.toLowerCase()
signInWithGoogle_denied(user) ==
    toLowerCase(user.email) # toLowerCase(ALLOWED_EMAIL)

\* the value returned for the allowed account
signInWithGoogle_success(user) ==
    [success |-> TRUE,
     user |-> [email |-> user.email,
               name |-> IF user.displayName # null /\ user.displayName.value # ""
                        THEN user.displayName.value
                        ELSE "User",
               role |-> "Super Admin",
               type |-> "enterprise",
               photoURL |-> user.photoURL]]

\* the catch block: the value returned for an error thrown inside try
signInWithGoogle_catch(error) ==
    IF error.code = POPUP_CLOSED
    THEN [success |-> FALSE, error |-> SIGNIN_CANCELLED]
    ELSE [success |-> FALSE,
          error |-> IF error.message # "" THEN error.message ELSE SIGNIN_FAILED]

isEmailAllowed(email) == toLowerCase(email) = toLowerCase(ALLOWED_EMAIL)

(***************************************************************************)
(* The dashboard script: the features a role may use.                      *)
(***************************************************************************)
\* the own properties of the permissions object literal of hasAccess
permissions ==
    [role \in {"Super Admin", "Admin", "Viewer", "Organizer", "Attendee"} |->
        CASE role = "Super Admin" ->
                 <<"events", "admins", "budget", "sales", "logs", "settings",
                   "create-event", "edit-event", "delete-event">>
          [] role = "Admin" -> <<"events", "logs", "create-event", "edit-event">>
          [] role = "Viewer" -> <<"events", "logs">>
          [] role = "Organizer" -> <<"events", "create-event", "edit-event">>
          [] role = "Attendee" -> <<"events">>]

\* what a call leaves when it throws instead of returning
TypeError == [threw |-> "TypeError"]

\* permissions[role] || []: role is the property name the value of
\* getUserRole converts to ("null" without a session), and the lookup goes
\* through the prototype of the object literal; a value inherited from
\* Object.prototype is truthy and has no includes method, so calling it
\* throws
hasAccess(ls, feature, t) ==
    LET role == getUserRole(ls, t)
        key == IF role.ret = null THEN "null" ELSE role.ret.value
    IN  [ret |-> IF key \in DOMAIN permissions
                 THEN [value |-> \E i \in 1..Len(permissions[key]) :
                                    permissions[key][i] = feature]
                 ELSE IF key \in ObjectPrototypeKeys
                 THEN TypeError
                 ELSE [value |-> FALSE],
         ls |-> role.ls]

(***************************************************************************)
(* js/validation.js: the validation of the fields of the login form.       *)
(***************************************************************************)
MESSAGES == [required |-> "This field is required",
             email |-> "Please enter a valid email address",
             passwordWeak |-> "Password must meet all requirements",
             passwordMismatch |-> "Passwords do not match"]

\* !value || value.trim() === '': the value is empty or white space only
isBlank(value) == \A i \in 1..Len(value) : value[i] = " "

\* mutant: the pattern without its anchors, /[^\s@]+@[^\s@]+\.[^\s@]+/
PATTERNS_email_test_Unanchored(email) ==
    \E at, dot \in 1..Len(email) :
        /\ email[at] = "@"
        /\ email[dot] = "."
        /\ 1 < at
        /\ at + 1 < dot
        /\ dot < Len(email)
        /\ email[at - 1] \notin {" ", "@"}
        /\ email[dot + 1] \notin {" ", "@"}
        /\ \A i \in (at + 1)..(dot - 1) : email[i] \notin {" ", "@"}

\* /^[^\s@]+@[^\s@]+\.[^\s@]+$/.test(email)
PATTERNS_email_test(email) ==
    \E at, dot \in 1..Len(email) :
        /\ email[at] = "@"
        /\ email[dot] = "."
        /\ 1 < at
        /\ at + 1 < dot
        /\ dot < Len(email)
        /\ \A i \in 1..Len(email) :
              /\ email[i] # " "
              /\ email[i] = "@" => i = at

validateEmail(email) ==
    IF isBlank(email)
    THEN [valid |-> FALSE, message |-> MESSAGES.required]
    ELSE IF ~PATTERNS_email_test(email)
    THEN [valid |-> FALSE, message |-> MESSAGES.email]
    ELSE [valid |-> TRUE, message |-> ""]

validateRequired(value) ==
    IF isBlank(value)
    THEN [valid |-> FALSE, message |-> MESSAGES.required]
    ELSE [valid |-> TRUE, message |-> ""]

\* the character classes of PATTERNS.password
UpperChars == {UPPER[i] : i \in 1..Len(UPPER)}
LowerChars == {LOWER[i] : i \in 1..Len(LOWER)}
DigitChars == {"0", "1", "2", "3", "4", "5", "6", "7", "8", "9"}
SpecialChars == {"!", "@", "#", "$", "%", "^", "&", "*", "(", ")", ",", ".",
                 "?", "\"", ":", "{", "}", "|", "<", ">"}

\* /[class]/.test(value): some character of the value is in the class
regexTest(class, value) == \E i \in 1..Len(value) : value[i] \in class

PATTERNS_password_minLength == 8

\* mutant: a score of 2 is already medium
checkPasswordStrength_MediumAtTwo(password) ==
    LET requirements ==
            [minLength |-> Len(password) >= PATTERNS_password_minLength,
             hasUppercase |-> regexTest(UpperChars, password),
             hasLowercase |-> regexTest(LowerChars, password),
             hasNumber |-> regexTest(DigitChars, password),
             hasSpecial |-> regexTest(SpecialChars, password)]
        metCount == Cardinality({k \in DOMAIN requirements : requirements[k]})
        strength == IF metCount <= 1 THEN "weak"
                    ELSE IF metCount <= 4 THEN "medium"
                    ELSE "strong"
    IN  [requirements |-> requirements, strength |-> strength,
         allMet |-> metCount = 5, score |-> metCount]

checkPasswordStrength(password) ==
    LET requirements ==
            [minLength |-> Len(password) >= PATTERNS_password_minLength,
             hasUppercase |-> regexTest(UpperChars, password),
             hasLowercase |-> regexTest(LowerChars, password),
             hasNumber |-> regexTest(DigitChars, password),
             hasSpecial |-> regexTest(SpecialChars, password)]
        metCount == Cardinality({k \in DOMAIN requirements : requirements[k]})
        strength == IF metCount <= 2 THEN "weak"
                    ELSE IF metCount <= 4 THEN "medium"
                    ELSE "strong"
    IN  [requirements |-> requirements, strength |-> strength,
         allMet |-> metCount = 5, score |-> metCount]

validatePassword(password, checkStrength) ==
    IF isBlank(password)
    THEN [valid |-> FALSE, message |-> MESSAGES.required]
    ELSE IF checkStrength
    THEN LET strength == checkPasswordStrength(password)
         IN  IF ~strength.allMet
             THEN [valid |-> FALSE, message |-> MESSAGES.passwordWeak,
                   strength |-> strength]
             ELSE [valid |-> TRUE, message |-> "", strength |-> strength]
    ELSE [valid |-> TRUE, message |-> ""]

validatePasswordMatch(password, confirmPassword) ==
    IF isBlank(confirmPassword)
    THEN [valid |-> FALSE, message |-> MESSAGES.required]
    ELSE IF password # confirmPassword
    THEN [valid |-> FALSE, message |-> MESSAGES.passwordMismatch]
    ELSE [valid |-> TRUE, message |-> ""]

\* the delays of the submit handler of the reset-password form
RESET_FORM_DELAY == 1000
RESET_REDIRECT_DELAY == 3000

\* the delays of the submit handler of the login form, in milliseconds
LOGIN_DELAY == 800
REDIRECT_DELAY == 500

(***************************************************************************)
(* Inputs.                                                                 *)
(***************************************************************************)
EmailInputs == {EMAIL_USER_UPPER, EMAIL_ADMIN, EMAIL_NOBODY}
\* the email and password pairs submitted to login
LoginInputs ==
    {<<EMAIL_USER_UPPER, PW_USER>>, <<EMAIL_USER_UPPER, PW_USER_LOWER>>,
     <<EMAIL_USER_UPPER, PW_NEW>>, <<EMAIL_ADMIN, PW_NEW>>, <<EMAIL_NOBODY, PW_USER>>}
NewPasswordInputs == {PW_NEW}
\* the digits Math.random() may yield
\* (0.0009765629923249443 and 0.0009765625: the first, followed by the digits
\* of time 0, reads as the second followed by the digits of time RESET_TTL)
RND_LONG == <<"0", "1", "9", "k", "9", "1", "2", "k", "w">>
RND_SHORT == <<"0", "1", "9", "k", "9">>
RandomValues == {RND_LONG, RND_SHORT}
\* a token that no reset request issues
BogusToken == RESET_PREFIX \o <<"b", "o", "g", "u", "s">>
TokenInputs == {inbox[i].token : i \in 1..Len(inbox)} \cup {BogusToken}
ResetDelays == {1, RESET_TTL}
SessionDelays == {1, SESSION_TTL}
\* milliseconds the clock advances between the two reads of createSession
ClockReads == {0, 1}
SanitizedView(u) == [email |-> u.email, role |-> u.role, type |-> u.type, name |-> u.name]
SessionUserInputs == {SanitizedView(DEMO_USERS_INIT[i]) : i \in {1, 2, 4}}
DomainInputs == {DOMAIN_INTUVIA, DOMAIN_INTUVIA_UPPER, DOMAIN_EXAMPLE, DOMAIN_NOMATCH}
\* the selectedEmail arguments: absent, the empty string, a stored email, a
\* case variant of it, an enterprise user's email, an unknown email
HintInputs == {null, << >>, EMAIL_USER, EMAIL_USER_UPPER, EMAIL_ADMIN, EMAIL_NOBODY}
AsyncDelays == {1, SSO_DELAY}
StoreDelays == {SSO_DELAY, RESET_TTL}
\* the values typed into the two fields of the login form
FormEmailInputs == {EMAIL_USER_UPPER, EMAIL_NOBODY, EMAIL_MALFORMED, EMAIL_USER_SPACE}
FormPasswordInputs == {PW_USER, PW_USER_LOWER, PW_BLANK}
FormDelays == {LOGIN_DELAY, SESSION_TTL + 1}
\* the values typed into the new-password field for the strength meter: up
\* to three characters of five kinds after a filler of 0, 5 or 8 characters,
\* the filler of 5 with or without letters,
\* each punctuation character alone, and the example of the documentation
PW_EXAMPLE == <<"A", "b", "c", "d", "e", "f", "1", "!">>
StrengthAlphabet == {"A", "b", "1", "!", "-"}
StrengthCores ==
    UNION {[1..n -> StrengthAlphabet] : n \in 0..3}
StrengthFillers == {<< >>, <<"-", "-", "-", "-", "-">>,
                    <<"A", "b", "-", "-", "-">>,
                    <<"-", "-", "-", "-", "-", "-", "-", "-">>}
StrengthInputs ==
    {f \o c : f \in StrengthFillers, c \in StrengthCores}
    \cup {<<c>> : c \in SpecialChars \cup {"_", "-", "~", "a", "Z", "0"}}
    \cup {PW_EXAMPLE}
\* the strings given to validateEmail: every string of up to five characters
\* of four kinds, and some longer ones
EmailAlphabet == {"a", "@", ".", " "}
EmailStrings ==
    UNION {[1..n -> EmailAlphabet] : n \in 0..5}
    \cup {EMAIL_USER, EMAIL_USER_UPPER, EMAIL_MALFORMED, EMAIL_USER_SPACE,
          <<"a", "@", "b", "@", "c", ".", "d">>,
          <<"a", " ", "b", "@", "c", ".", "d">>,
          <<"a", "@", "b", ".", "c", ".", "d">>}
\* the roles given to getDashboardUrl and stored in sessions: the five of
\* the table, an unknown one, a missing one, and names of Object.prototype
RoleInputs == {"Super Admin", "Admin", "Viewer", "Attendee", "Organizer",
               "Guest", "undefined", "constructor", "toString"}
RoleUserInputs ==
    {[email |-> EMAIL_USER, role |-> r, type |-> "normal", name |-> "Emily Davis"] :
        r \in RoleInputs}
\* the values typed into the two fields of the reset-password form, and the
\* time steps of its page
PW_WEAK == <<"a", "b", "c">>
ResetFormInputs == {PW_NEW, PW_WEAK}
ResetFormDelays == {RESET_FORM_DELAY, RESET_REDIRECT_DELAY}
\* the time steps of the sign-in flows
FlowDelays == {LOGIN_DELAY, SSO_DELAY}
\* the allowedRoles arguments of protectRoute
AllowedRolesInputs == {<< >>, <<"Attendee">>, <<"Super Admin", "Admin">>}
\* the feature arguments of hasAccess
FeatureInputs == {"events", "logs", "admins", "create-event", "delete-event",
                  "reports"}
\* the Google accounts picked in the popup: the allowed one, a case variant of
\* it, and two others; displayName and photoURL may be missing
ALLOWED_EMAIL_UPPER ==
    <<"P", "r", "o", "j", "e", "c", "t", "I", "n", "t", "u", "i", "v", "a", "@",
      "G", "M", "A", "I", "L", ".", "c", "o", "m">>
EMAIL_NEAR_ALLOWED ==
    <<"p", "r", "o", "j", "e", "c", "t", "i", "n", "t", "u", "i", "v", "a", "@",
      "g", "m", "a", "i", "l", ".", "c", "o">>
GoogleAccounts ==
    {[email |-> ALLOWED_EMAIL, displayName |-> [value |-> "Project Intuiva"],
      photoURL |-> [value |-> "photo.png"]],
     [email |-> ALLOWED_EMAIL_UPPER, displayName |-> null, photoURL |-> null],
     [email |-> EMAIL_GOOGLE, displayName |-> [value |-> "Google User"],
      photoURL |-> null],
     [email |-> EMAIL_NEAR_ALLOWED, displayName |-> [value |-> ""],
      photoURL |-> [value |-> "photo.png"]]}
\* the errors the promises of the Firebase SDK are rejected with
PopupErrors ==
    {[code |-> POPUP_CLOSED, message |-> "The popup has been closed by the user."],
     [code |-> "auth/network-request-failed", message |-> "A network error has occurred."],
     [code |-> "auth/internal-error", message |-> ""]}
SignOutErrors ==
    {[code |-> "auth/network-request-failed", message |-> "A network error has occurred."],
     [code |-> "auth/internal-error", message |-> ""]}
\* the promises that may be pending together
PromiseSlots == {1, 2}

(***************************************************************************)
(* Initial state: the first page of a fresh browser profile has loaded;    *)
(* its DOMContentLoaded handler, initAuth, has seeded the users slot.  No  *)
(* call of the exported interface has been made.                           *)
(***************************************************************************)
\* no reset-password page is open
NoPage == [token |-> null, enabled |-> FALSE, disabled |-> FALSE]

EmptyStorage == [k \in {SESSION_KEY, USERS_KEY, RESET_TOKEN_KEY} |-> NoItem]

Init ==
    /\ localStorage = initAuth(EmptyStorage, DEMO_USERS_INIT)
    /\ DEMO_USERS = DEMO_USERS_INIT
    /\ now = 0
    /\ ticks = 0
    /\ inbox = << >>
    /\ last = [op |-> "none", args |-> null, ret |-> null]
    /\ timers = << >>
    /\ inputs = [email |-> << >>, password |-> << >>,
                 newPassword |-> << >>, confirmPassword |-> << >>]
    /\ page = NoPage
    /\ firebase = NoFirebase
    /\ loginPage = [handler |-> TRUE, disabled |-> FALSE]

\* the first page of a fresh browser profile is still loading: the script has
\* been evaluated, the DOMContentLoaded handler has not run yet
InitBoot ==
    /\ localStorage = EmptyStorage
    /\ DEMO_USERS = DEMO_USERS_INIT
    /\ now = 0
    /\ ticks = 0
    /\ inbox = << >>
    /\ last = [op |-> "none", args |-> null, ret |-> null]
    /\ timers = << >>
    /\ inputs = [email |-> << >>, password |-> << >>,
                 newPassword |-> << >>, confirmPassword |-> << >>]
    /\ page = NoPage
    /\ firebase = NoFirebase
    /\ loginPage = NoLoginPage

(***************************************************************************)
(* Actions.                                                                *)
(***************************************************************************)
Tick(d) ==
    /\ ticks < MaxTicks
    /\ now' = now + d
    /\ ticks' = ticks + 1
    /\ UNCHANGED <<localStorage, DEMO_USERS, inbox, last, timers, inputs, page, firebase, loginPage>>

TickReset == \E d \in ResetDelays : Tick(d)

TickSession == \E d \in SessionDelays : Tick(d)

InitAuth ==
    /\ localStorage' = initAuth(localStorage, DEMO_USERS)
    /\ last' = [op |-> "initAuth", args |-> null, ret |-> null]
    /\ UNCHANGED <<DEMO_USERS, now, ticks, inbox, timers, inputs, page, firebase, loginPage>>

Login ==
    \E input \in LoginInputs :
        /\ last' = [op |-> "validateLogin",
                    args |-> [email |-> input[1], password |-> input[2]],
                    ret |-> validateLogin(localStorage, DEMO_USERS, input[1], input[2])]
        /\ UNCHANGED <<localStorage, DEMO_USERS, now, ticks, inbox, timers, inputs, page, firebase, loginPage>>

\* the reset links the user holds after a call that returned ret at time t
Received(ret, t) ==
    IF ret.success
    THEN IF inbox = << >>
         THEN <<[token |-> ret.resetUrl[2], at |-> t]>>
         ELSE <<[token |-> ret.resetUrl[2], at |-> t], inbox[1]>>
    ELSE inbox

\* handleForgotPassword(email) whose two clock reads fall in the same
\* millisecond
RequestReset ==
    \E email \in EmailInputs, rnd \in RandomValues :
        LET r == handleForgotPassword(localStorage, DEMO_USERS, email, rnd, now, now)
        IN  /\ localStorage' = r.ls
            /\ inbox' = Received(r.ret, now)
            /\ last' = [op |-> "handleForgotPassword",
                        args |-> [email |-> email], ret |-> r.ret]
            /\ UNCHANGED <<DEMO_USERS, now, ticks, timers, inputs, page, firebase, loginPage>>

\* handleForgotPassword(email) when the millisecond clock advances between
\* its two reads
RequestResetClock ==
    \E email \in EmailInputs, rnd \in RandomValues, d \in ClockReads :
        LET r == handleForgotPassword(localStorage, DEMO_USERS, email, rnd, now, now + d)
        IN  /\ ticks < MaxTicks
            /\ localStorage' = r.ls
            /\ now' = now + d
            /\ ticks' = ticks + 1
            /\ inbox' = Received(r.ret, now + d)
            /\ last' = [op |-> "handleForgotPassword",
                        args |-> [email |-> email], ret |-> r.ret]
            /\ UNCHANGED <<DEMO_USERS, timers, inputs, page, firebase, loginPage>>

VerifyToken ==
    \E token \in TokenInputs :
        LET r == validateResetToken(localStorage, token, now)
        IN  /\ localStorage' = r.ls
            /\ last' = [op |-> "validateResetToken",
                        args |-> [token |-> token], ret |-> r.ret]
            /\ UNCHANGED <<DEMO_USERS, now, ticks, inbox, timers, inputs, page, firebase, loginPage>>

ResetPassword ==
    \E token \in TokenInputs, newPassword \in NewPasswordInputs :
        LET r == resetPassword(localStorage, DEMO_USERS, token, newPassword, now)
        IN  /\ localStorage' = r.ls
            /\ DEMO_USERS' = r.demo
            /\ last' = [op |-> "resetPassword",
                        args |-> [token |-> token, newPassword |-> newPassword],
                        ret |-> r.ret]
            /\ UNCHANGED <<now, ticks, inbox, timers, inputs, page, firebase, loginPage>>

CreateSessionOf(users) ==
    \E user \in users :
        /\ localStorage' = createSession(localStorage, user, now, now)
        /\ last' = [op |-> "createSession", args |-> [user |-> user], ret |-> null]
        /\ UNCHANGED <<DEMO_USERS, now, ticks, inbox, timers, inputs, page, firebase, loginPage>>

CreateSession == CreateSessionOf(SessionUserInputs)

\* protectRoute(allowedRoles); the clock may advance between its two reads
\* of the session
ProtectRoute ==
    \E allowedRoles \in AllowedRolesInputs, d \in ClockReads :
        LET r == protectRoute(localStorage, allowedRoles, now, now + d)
        IN  /\ d = 0 \/ ticks < MaxTicks
            /\ localStorage' = r.ls
            /\ now' = now + d
            /\ ticks' = IF d = 0 THEN ticks ELSE ticks + 1
            /\ last' = [op |-> "protectRoute", args |-> [allowedRoles |-> allowedRoles],
                        ret |-> [value |-> r.ret, href |-> r.href]]
            /\ UNCHANGED <<DEMO_USERS, inbox, timers, inputs, page, firebase, loginPage>>

\* the DOMContentLoaded handler of a page that loaded the Firebase SDK
InitFirebase ==
    /\ ~firebase.auth
    /\ firebase.pc = "idle"
    /\ firebase' = [firebase EXCEPT !.auth = TRUE]
    /\ last' = [op |-> "initFirebase", args |-> null, ret |-> null]
    /\ UNCHANGED <<localStorage, DEMO_USERS, now, ticks, inbox, timers, inputs, page,
                   loginPage>>

\* signInWithGoogle() up to its first await: with auth undefined the call of
\* auth.signInWithPopup throws inside try and the catch block returns; one
\* call is pending at a time
SignInWithGoogle ==
    /\ firebase.pc = "idle"
    /\ IF firebase.auth
       THEN /\ firebase' = [firebase EXCEPT !.pc = "signInWithPopup", !.user = null]
            /\ last' = [op |-> "signInWithGoogle.popup", args |-> null, ret |-> null]
       ELSE /\ firebase' = [firebase EXCEPT !.user = null]
            /\ last' = [op |-> "signInWithGoogle", args |-> null,
                        ret |-> signInWithGoogle_catch(AuthUndefined("signInWithPopup"))]
    /\ UNCHANGED <<localStorage, DEMO_USERS, now, ticks, inbox, timers, inputs, page,
                   loginPage>>

\* the popup promise resolves: Firebase has signed the picked account in
PopupResolves ==
    \E user \in GoogleAccounts :
        /\ firebase.pc = "signInWithPopup"
        /\ IF signInWithGoogle_denied(user)
           THEN /\ firebase' = [firebase EXCEPT !.currentUser = user, !.user = user,
                                                !.pc = "signOut"]
                /\ last' = [op |-> "signInWithGoogle.signOut", args |-> null,
                            ret |-> null]
           ELSE /\ firebase' = [firebase EXCEPT !.currentUser = user, !.user = user,
                                                !.pc = "idle"]
                /\ last' = [op |-> "signInWithGoogle", args |-> null,
                            ret |-> signInWithGoogle_success(user)]
        /\ UNCHANGED <<localStorage, DEMO_USERS, now, ticks, inbox, timers, inputs, page,
                   loginPage>>

\* the popup promise is rejected: nobody is signed in by it
PopupRejects ==
    \E error \in PopupErrors :
        /\ firebase.pc = "signInWithPopup"
        /\ firebase' = [firebase EXCEPT !.pc = "idle"]
        /\ last' = [op |-> "signInWithGoogle", args |-> null,
                    ret |-> signInWithGoogle_catch(error)]
        /\ UNCHANGED <<localStorage, DEMO_USERS, now, ticks, inbox, timers, inputs, page,
                   loginPage>>

\* the promise of auth.signOut() inside signInWithGoogle resolves
SignOutResolves ==
    /\ firebase.pc = "signOut"
    /\ firebase' = [firebase EXCEPT !.currentUser = null, !.pc = "idle"]
    /\ last' = [op |-> "signInWithGoogle", args |-> null,
                ret |-> [success |-> FALSE, error |-> NO_ACCESS]]
    /\ UNCHANGED <<localStorage, DEMO_USERS, now, ticks, inbox, timers, inputs, page,
                   loginPage>>

\* the promise of auth.signOut() inside signInWithGoogle is rejected: the
\* account stays signed in and the catch block returns
SignOutRejects ==
    \E error \in SignOutErrors :
        /\ firebase.pc = "signOut"
        /\ firebase' = [firebase EXCEPT !.pc = "idle"]
        /\ last' = [op |-> "signInWithGoogle", args |-> null,
                    ret |-> signInWithGoogle_catch(error)]
        /\ UNCHANGED <<localStorage, DEMO_USERS, now, ticks, inbox, timers, inputs, page,
                   loginPage>>

\* firebaseSignOut() up to its await: with auth undefined the call of
\* auth.signOut throws inside try and the catch block returns; one call is
\* pending at a time
FirebaseSignOut ==
    /\ firebase.pcSignOut = "idle"
    /\ IF firebase.auth
       THEN /\ firebase' = [firebase EXCEPT !.pcSignOut = "signOut"]
            /\ last' = [op |-> "firebaseSignOut.signOut", args |-> null, ret |-> null]
       ELSE /\ firebase' = firebase
            /\ last' = [op |-> "firebaseSignOut", args |-> null,
                        ret |-> [success |-> FALSE,
                                 error |-> AuthUndefined("signOut").message]]
    /\ UNCHANGED <<localStorage, DEMO_USERS, now, ticks, inbox, timers, inputs, page,
                   loginPage>>

\* the promise of auth.signOut() inside firebaseSignOut resolves
FirebaseSignOutResolves ==
    /\ firebase.pcSignOut = "signOut"
    /\ firebase' = [firebase EXCEPT !.currentUser = null, !.pcSignOut = "idle"]
    /\ last' = [op |-> "firebaseSignOut", args |-> null, ret |-> [success |-> TRUE]]
    /\ UNCHANGED <<localStorage, DEMO_USERS, now, ticks, inbox, timers, inputs, page,
                   loginPage>>

\* the promise of auth.signOut() inside firebaseSignOut is rejected
FirebaseSignOutRejects ==
    \E error \in SignOutErrors :
        /\ firebase.pcSignOut = "signOut"
        /\ firebase' = [firebase EXCEPT !.pcSignOut = "idle"]
        /\ last' = [op |-> "firebaseSignOut", args |-> null,
                    ret |-> [success |-> FALSE, error |-> error.message]]
        /\ UNCHANGED <<localStorage, DEMO_USERS, now, ticks, inbox, timers, inputs, page,
                       loginPage>>

GetCurrentUser ==
    /\ last' = [op |-> "getCurrentUser", args |-> null,
                ret |-> IF firebase.auth THEN firebase.currentUser ELSE null]
    /\ UNCHANGED <<localStorage, DEMO_USERS, now, ticks, inbox, timers, inputs, page,
                   firebase, loginPage>>

IsEmailAllowed ==
    \E user \in GoogleAccounts :
        /\ last' = [op |-> "isEmailAllowed", args |-> [email |-> user.email],
                    ret |-> [bool |-> isEmailAllowed(user.email)]]
        /\ UNCHANGED <<localStorage, DEMO_USERS, now, ticks, inbox, timers, inputs,
                       page, firebase, loginPage>>

HasAccess ==
    \E feature \in FeatureInputs :
        LET r == hasAccess(localStorage, feature, now)
        IN  /\ localStorage' = r.ls
            /\ last' = [op |-> "hasAccess", args |-> [feature |-> feature],
                        ret |-> r.ret]
            /\ UNCHANGED <<DEMO_USERS, now, ticks, inbox, timers, inputs, page, firebase, loginPage>>

GetDashboardUrl ==
    \E role \in RoleInputs :
        /\ last' = [op |-> "getDashboardUrl", args |-> [role |-> role],
                    ret |-> getDashboardUrl(role)]
        /\ UNCHANGED <<localStorage, DEMO_USERS, now, ticks, inbox, timers, inputs, page, firebase, loginPage>>

RedirectToDashboard ==
    LET r == redirectToDashboard(localStorage, now)
    IN  /\ localStorage' = r.ls
        /\ last' = [op |-> "redirectToDashboard", args |-> null, ret |-> r.href]
        /\ UNCHANGED <<DEMO_USERS, now, ticks, inbox, timers, inputs, page, firebase, loginPage>>

\* createSession when the millisecond clock advances between its two reads
\* (CreateSession is the call whose two reads fall in the same millisecond)
CreateSessionClock ==
    \E user \in SessionUserInputs, d \in ClockReads :
        /\ ticks < MaxTicks
        /\ localStorage' = createSession(localStorage, user, now, now + d)
        /\ now' = now + d
        /\ ticks' = ticks + 1
        /\ last' = [op |-> "createSession", args |-> [user |-> user], ret |-> null]
        /\ UNCHANGED <<DEMO_USERS, inbox, timers, inputs, page, firebase, loginPage>>

GetSession ==
    LET r == getSession(localStorage, now)
    IN  /\ localStorage' = r.ls
        /\ last' = [op |-> "getSession", args |-> null, ret |-> r.ret]
        /\ UNCHANGED <<DEMO_USERS, now, ticks, inbox, timers, inputs, page, firebase, loginPage>>

Logout ==
    /\ localStorage' = logout(localStorage)
    /\ last' = [op |-> "logout", args |-> null, ret |-> null]
    /\ UNCHANGED <<DEMO_USERS, now, ticks, inbox, timers, inputs, page, firebase, loginPage>>

IsLoggedIn ==
    LET r == isLoggedIn(localStorage, now)
    IN  /\ localStorage' = r.ls
        /\ last' = [op |-> "isLoggedIn", args |-> null, ret |-> [bool |-> r.ret]]
        /\ UNCHANGED <<DEMO_USERS, now, ticks, inbox, timers, inputs, page, firebase, loginPage>>

GetUserRole ==
    LET r == getUserRole(localStorage, now)
    IN  /\ localStorage' = r.ls
        /\ last' = [op |-> "getUserRole", args |-> null, ret |-> r.ret]
        /\ UNCHANGED <<DEMO_USERS, now, ticks, inbox, timers, inputs, page, firebase, loginPage>>

GetUserType ==
    LET r == getUserType(localStorage, now)
    IN  /\ localStorage' = r.ls
        /\ last' = [op |-> "getUserType", args |-> null, ret |-> r.ret]
        /\ UNCHANGED <<DEMO_USERS, now, ticks, inbox, timers, inputs, page, firebase, loginPage>>

TickAsync == \E d \in AsyncDelays : Tick(d)

\* mutant: a timer runs only after its due time has passed
Runnable_AfterDue(i) ==
    /\ timers[i].due < now
    /\ \A j \in 1..Len(timers) :
          \/ timers[j].due > timers[i].due
          \/ (timers[j].due = timers[i].due /\ j >= i)

\* timer i is the next one to run: it is due, and no other timer is due
\* earlier or, with the same due time, was registered before it
Runnable(i) ==
    /\ timers[i].due <= now
    /\ \A j \in 1..Len(timers) :
          \/ timers[j].due > timers[i].due
          \/ (timers[j].due = timers[i].due /\ j >= i)

RemoveAt(seq, i) == SubSeq(seq, 1, i - 1) \o SubSeq(seq, i + 1, Len(seq))

\* time passes until the earliest pending timer is due
AdvanceToTimer ==
    /\ timers # << >>
    /\ \A i \in 1..Len(timers) : timers[i].due > now
    /\ \E i \in 1..Len(timers) :
          /\ \A j \in 1..Len(timers) : timers[i].due <= timers[j].due
          /\ now' = timers[i].due
    /\ ticks' = IF ticks < MaxTicks THEN ticks + 1 ELSE ticks
    /\ UNCHANGED <<localStorage, DEMO_USERS, inbox, last, timers, inputs, page, firebase, loginPage>>

\* the call of loginWithSSO: the promise is created and the timeout set
LoginWithSSO ==
    \E domain \in DomainInputs :
        /\ Len(timers) < Cardinality(PromiseSlots)
        /\ timers' = Append(timers, [op |-> "loginWithSSO",
                                     args |-> [domain |-> domain],
                                     due |-> now + SSO_DELAY])
        /\ UNCHANGED <<localStorage, DEMO_USERS, now, ticks, inbox, last, inputs, page, firebase, loginPage>>

\* the timeout callback of loginWithSSO: the promise is resolved
SSOTimeout ==
    \E i \in 1..Len(timers) :
        /\ timers[i].op = "loginWithSSO"
        /\ Runnable(i)
        /\ last' = [op |-> "loginWithSSO", args |-> timers[i].args,
                    ret |-> loginWithSSO(localStorage, DEMO_USERS, timers[i].args.domain)]
        /\ timers' = RemoveAt(timers, i)
        /\ UNCHANGED <<localStorage, DEMO_USERS, now, ticks, inbox, inputs, page, firebase, loginPage>>

LoginWithGoogle ==
    \E selectedEmail \in HintInputs :
        /\ Len(timers) < Cardinality(PromiseSlots)
        /\ timers' = Append(timers, [op |-> "loginWithGoogle",
                                     args |-> [selectedEmail |-> selectedEmail],
                                     due |-> now + GOOGLE_DELAY])
        /\ UNCHANGED <<localStorage, DEMO_USERS, now, ticks, inbox, last, inputs, page, firebase, loginPage>>

GoogleTimeout ==
    \E i \in 1..Len(timers) :
        /\ timers[i].op = "loginWithGoogle"
        /\ Runnable(i)
        /\ last' = [op |-> "loginWithGoogle", args |-> timers[i].args,
                    ret |-> loginWithGoogle(localStorage, DEMO_USERS,
                                            timers[i].args.selectedEmail)]
        /\ timers' = RemoveAt(timers, i)
        /\ UNCHANGED <<localStorage, DEMO_USERS, now, ticks, inbox, inputs, page, firebase, loginPage>>

(***************************************************************************)
(* js/validation.js: the login form.  The submit handler runs up to its    *)
(* await; the rest of it runs as the callback of the 800 ms timeout.       *)
(***************************************************************************)
TickForm == \E d \in FormDelays : Tick(d)

\* the user types into the fields; they stay editable during the delay
EditLoginForm ==
    \E email \in FormEmailInputs, password \in FormPasswordInputs :
        /\ inputs' = [inputs EXCEPT !.email = email, !.password = password]
        /\ UNCHANGED <<localStorage, DEMO_USERS, now, ticks, inbox, last, timers, page, firebase, loginPage>>

\* the input listener of the new-password field: the typed value is rated
NewPasswordInput ==
    \E value \in StrengthInputs :
        /\ inputs' = [inputs EXCEPT !.newPassword = value]
        /\ last' = [op |-> "checkPasswordStrength", args |-> [password |-> value],
                    ret |-> checkPasswordStrength(value)]
        /\ UNCHANGED <<localStorage, DEMO_USERS, now, ticks, inbox, timers, page, firebase, loginPage>>

\* window.NexusValidation.validateEmail(email)
ValidateEmail ==
    \E email \in EmailStrings :
        /\ last' = [op |-> "validateEmail", args |-> [email |-> email],
                    ret |-> validateEmail(email)]
        /\ UNCHANGED <<localStorage, DEMO_USERS, now, ticks, inbox, timers, inputs, page, firebase, loginPage>>

\* signInBtn.disabled: set by setButtonLoading(signInBtn, true) at a
\* submission that passed the validation, cleared only when its login failed
signInBtnDisabled == loginPage.disabled

\* window.NexusValidation.setButtonLoading(signInBtn, loading) on the login
\* page
SetSignInBtnLoading ==
    \E loading \in BOOLEAN :
        /\ loginPage.handler
        /\ loginPage' = [loginPage EXCEPT !.disabled = loading]
        /\ UNCHANGED <<localStorage, DEMO_USERS, now, ticks, inbox, last, timers, inputs,
                       page, firebase>>

\* the timeouts of the login page
LoginFormTimers == {"loginForm.await", "loginForm.redirect"}

\* initLoginForm when index.html is opened again, once the callbacks of its
\* former document have run: the fields of the new document are empty; with
\* a session the page calls redirectToDashboard, which reads the session
\* again, and returns before it registers the submit handler
LoadLoginPage ==
    \E d \in ClockReads :
        LET loggedIn == isLoggedIn(localStorage, now)
            t == IF loggedIn.ret THEN now + d ELSE now
            r == redirectToDashboard(loggedIn.ls, t)
        IN  /\ \A i \in 1..Len(timers) : timers[i].op \notin LoginFormTimers
            /\ IF loggedIn.ret THEN d = 0 \/ ticks < MaxTicks ELSE d = 0
            /\ IF loggedIn.ret
               THEN /\ localStorage' = r.ls
                    /\ loginPage' = NoLoginPage
                    /\ last' = [op |-> "initLoginForm", args |-> null, ret |-> r.href]
               ELSE /\ localStorage' = loggedIn.ls
                    /\ loginPage' = [handler |-> TRUE, disabled |-> FALSE]
                    /\ last' = [op |-> "initLoginForm", args |-> null, ret |-> null]
            /\ inputs' = [inputs EXCEPT !.email = << >>, !.password = << >>]
            /\ now' = t
            /\ ticks' = ticks + (t - now)
            /\ UNCHANGED <<DEMO_USERS, inbox, timers, page, firebase>>

\* the submit event: the handler up to the await
SubmitLoginForm ==
    LET emailResult == validateEmail(inputs.email)
        passwordResult == validateRequired(inputs.password)
    IN  /\ loginPage.handler
        /\ ~signInBtnDisabled
        /\ Len(timers) < Cardinality(PromiseSlots)
        /\ loginPage' = IF ~emailResult.valid \/ ~passwordResult.valid
                         THEN loginPage
                         ELSE [loginPage EXCEPT !.disabled = TRUE]
        /\ last' = [op |-> "loginForm.submit", args |-> inputs,
                    ret |-> [valid |-> emailResult.valid /\ passwordResult.valid]]
        /\ timers' = IF ~emailResult.valid \/ ~passwordResult.valid
                      THEN timers
                      ELSE Append(timers, [op |-> "loginForm.await", args |-> inputs,
                                           due |-> now + LOGIN_DELAY])
        /\ UNCHANGED <<localStorage, DEMO_USERS, now, ticks, inbox, inputs, page, firebase>>

\* the handler after the await: the fields are read again, and
\* createSession reads the clock twice; submitted is what the fields held
\* when the form was submitted
LoginFormResume ==
    \E i \in 1..Len(timers), d \in ClockReads :
        LET result == validateLogin(localStorage, DEMO_USERS, inputs.email, inputs.password)
            t == IF result.success THEN now + d ELSE now
        IN  /\ timers[i].op = "loginForm.await"
            /\ Runnable(i)
            /\ IF result.success THEN d = 0 \/ ticks < MaxTicks ELSE d = 0
            /\ last' = [op |-> "loginForm.login",
                        args |-> [email |-> inputs.email, password |-> inputs.password,
                                  submitted |-> [email |-> timers[i].args.email,
                                                 password |-> timers[i].args.password]],
                        ret |-> result]
            /\ localStorage' = IF result.success
                               THEN createSession(localStorage, result.user, now, t)
                               ELSE localStorage
            /\ now' = t
            /\ ticks' = ticks + (t - now)
            /\ timers' = IF result.success
                          THEN Append(RemoveAt(timers, i),
                                      [op |-> "loginForm.redirect", args |-> null,
                                       due |-> t + REDIRECT_DELAY])
                          ELSE RemoveAt(timers, i)
            /\ loginPage' = IF result.success
                             THEN loginPage
                             ELSE [loginPage EXCEPT !.disabled = FALSE]
            /\ UNCHANGED <<DEMO_USERS, inbox, inputs, page, firebase>>

\* the callback of the 500 ms timeout: redirectToDashboard; signInBtn stays
\* disabled whether or not the page is left
LoginFormRedirect ==
    \E i \in 1..Len(timers) :
        LET r == redirectToDashboard(localStorage, now)
        IN  /\ timers[i].op = "loginForm.redirect"
            /\ Runnable(i)
            /\ last' = [op |-> "redirectToDashboard", args |-> null, ret |-> r.href]
            /\ localStorage' = r.ls
            /\ timers' = RemoveAt(timers, i)
            /\ UNCHANGED <<DEMO_USERS, now, ticks, inbox, inputs, page, firebase, loginPage>>

(***************************************************************************)
(* js/validation.js: the reset-password form.  The page is opened with the *)
(* token of its URL; the submit handler runs up to its await, the rest of  *)
(* it as the callback of the 1000 ms timeout.                              *)
(***************************************************************************)
TickResetForm == \E d \in ResetFormDelays : Tick(d)

\* initResetPasswordForm when reset-password.html is opened: the token of
\* the URL is verified and the form is disabled when that fails
LoadResetPage ==
    \E token \in TokenInputs :
        LET tokenResult == validateResetToken(localStorage, token, now)
        IN  /\ page = NoPage
            /\ timers = << >>
            /\ localStorage' = tokenResult.ls
            /\ page' = [token |-> token, enabled |-> tokenResult.ret.success,
                        disabled |-> FALSE]
            /\ inputs' = [inputs EXCEPT !.newPassword = << >>,
                                        !.confirmPassword = << >>]
            /\ last' = [op |-> "resetForm.load", args |-> [token |-> token],
                        ret |-> tokenResult.ret]
            /\ UNCHANGED <<DEMO_USERS, now, ticks, inbox, timers, firebase, loginPage>>

\* the user types into the two fields; they stay editable during the delay
EditResetForm ==
    \E newPassword \in ResetFormInputs, confirmPassword \in ResetFormInputs :
        /\ page.enabled
        /\ inputs' = [inputs EXCEPT !.newPassword = newPassword,
                                    !.confirmPassword = confirmPassword]
        /\ UNCHANGED <<localStorage, DEMO_USERS, now, ticks, inbox, last, timers, page, firebase, loginPage>>

\* submitBtn.disabled: set by setButtonLoading(submitBtn, true) at a
\* submission that passed the validation, cleared when resetPassword has
\* been called
submitBtnDisabled == page.disabled

\* window.NexusValidation.setButtonLoading(submitBtn, loading) on the
\* reset-password page
SetSubmitBtnLoading ==
    \E loading \in BOOLEAN :
        /\ page # NoPage
        /\ page' = [page EXCEPT !.disabled = loading]
        /\ UNCHANGED <<localStorage, DEMO_USERS, now, ticks, inbox, last, timers, inputs,
                       firebase, loginPage>>

\* the submit handler up to its await
SubmitResetForm ==
    LET passwordResult == validatePassword(inputs.newPassword, TRUE)
        confirmResult == validatePasswordMatch(inputs.newPassword, inputs.confirmPassword)
        valid == passwordResult.valid /\ confirmResult.valid
    IN  /\ page.enabled
        /\ ~submitBtnDisabled
        /\ Len(timers) < Cardinality(PromiseSlots)
        /\ last' = [op |-> "resetForm.submit", args |-> inputs,
                    ret |-> [valid |-> valid]]
        /\ timers' = IF ~valid
                      THEN timers
                      ELSE Append(timers, [op |-> "resetForm.await", args |-> inputs,
                                           due |-> now + RESET_FORM_DELAY])
        /\ page' = IF ~valid THEN page ELSE [page EXCEPT !.disabled = TRUE]
        /\ UNCHANGED <<localStorage, DEMO_USERS, now, ticks, inbox, inputs, firebase, loginPage>>

\* the handler after the await: the password field is read again
ResetFormResume ==
    \E i \in 1..Len(timers) :
        LET result == resetPassword(localStorage, DEMO_USERS, page.token,
                                    inputs.newPassword, now)
        IN  /\ timers[i].op = "resetForm.await"
            /\ Runnable(i)
            /\ last' = [op |-> "resetForm.resetPassword",
                        args |-> [token |-> page.token,
                                  newPassword |-> inputs.newPassword,
                                  validated |-> timers[i].args],
                        ret |-> result.ret]
            /\ localStorage' = result.ls
            /\ DEMO_USERS' = result.demo
            /\ timers' = IF result.ret.success
                          THEN Append(RemoveAt(timers, i),
                                      [op |-> "resetForm.redirect", args |-> null,
                                       due |-> now + RESET_REDIRECT_DELAY])
                          ELSE RemoveAt(timers, i)
            /\ page' = [page EXCEPT !.disabled = FALSE]
            /\ UNCHANGED <<now, ticks, inbox, inputs, firebase, loginPage>>

\* the callback of the 3000 ms timeout: the window goes to index.html
ResetFormRedirect ==
    \E i \in 1..Len(timers) :
        /\ timers[i].op = "resetForm.redirect"
        /\ Runnable(i)
        /\ last' = [op |-> "resetForm.redirect", args |-> null,
                    ret |-> [value |-> "index.html"]]
        /\ page' = NoPage
        /\ timers' = << >>
        /\ UNCHANGED <<localStorage, DEMO_USERS, now, ticks, inbox, inputs, firebase, loginPage>>

(***************************************************************************)
(* Specifications.  Spec: the credential store, login and the reset-token  *)
(* lifecycle.  SpecSession: the session manager.                           *)
(***************************************************************************)
Next ==
    \/ TickReset
    \/ InitAuth
    \/ Login
    \/ RequestReset
    \/ VerifyToken
    \/ ResetPassword

Spec == Init /\ [][Next]_vars

\* SpecResetClock: the reset lifecycle when the clock may advance inside
\* handleForgotPassword
NextResetClock ==
    \/ TickReset
    \/ RequestReset /\ last'.args.email # EMAIL_ADMIN
    \/ RequestResetClock /\ last'.args.email = EMAIL_USER_UPPER
    \/ VerifyToken
    \/ ResetPassword

SpecResetClock == Init /\ [][NextResetClock]_vars

NextSession ==
    \/ TickSession
    \/ CreateSession
    \/ GetSession
    \/ IsLoggedIn
    \/ GetUserRole
    \/ GetUserType
    \/ Logout

SpecSession == Init /\ [][NextSession]_vars

\* SpecStrength: the strength meter of the reset-password form
NextStrength ==
    \/ NewPasswordInput

SpecStrength == Init /\ [][NextStrength]_vars

\* SpecEmail: validateEmail on its own
NextEmail ==
    \/ ValidateEmail

SpecEmail == Init /\ [][NextEmail]_vars

\* SpecDashboard: sessions of any role and the routing to the dashboards
NextDashboard ==
    \/ TickSession
    \/ CreateSessionOf(RoleUserInputs)
    \/ GetDashboardUrl
    \/ RedirectToDashboard
    \/ Logout

SpecDashboard == Init /\ [][NextDashboard]_vars

\* SpecResetForm: a reset request and the reset-password form
NextResetForm ==
    \/ TickResetForm
    \/ RequestReset /\ last'.args.email = EMAIL_USER_UPPER
                    /\ inbox'[1].token = generateResetToken(RND_LONG, now)
    \/ LoadResetPage
    \/ EditResetForm /\ inputs'.confirmPassword = PW_NEW
    \/ SubmitResetForm
    \/ ResetFormResume
    \/ ResetFormRedirect
    \/ SetSubmitBtnLoading

SpecResetForm == Init /\ [][NextResetForm]_vars

\* SpecFlows: the three ways to sign in: the login form up to the session it
\* creates, loginWithSSO and loginWithGoogle up to the result they resolve with
TickFlows == \E d \in FlowDelays : Tick(d)

NextFlows ==
    \/ TickFlows
    \/ EditLoginForm /\ inputs'.email = EMAIL_USER_UPPER
                     /\ inputs'.password = PW_USER
    \/ SubmitLoginForm
    \/ LoginFormResume
    \/ LoginFormRedirect
    \/ LoadLoginPage
    \/ SetSignInBtnLoading
    \/ LoginWithSSO /\ timers'[Len(timers')].args.domain = DOMAIN_INTUVIA
    \/ SSOTimeout
    \/ LoginWithGoogle /\ \/ ~truthy(timers'[Len(timers')].args.selectedEmail)
                          \/ timers'[Len(timers')].args.selectedEmail = EMAIL_NOBODY
    \/ GoogleTimeout
    \/ Logout

SpecFlows == Init /\ [][NextFlows]_vars

\* SpecSeed: the operations of window.NexusAuth from a fresh profile on,
\* callable as soon as the script has run, before or after the
\* DOMContentLoaded handler initAuth
NextSeed ==
    \/ InitAuth
    \/ TickReset
    \/ Login /\ last'.args.email = EMAIL_USER_UPPER
    \/ RequestReset /\ last'.args.email = EMAIL_USER_UPPER
    \/ VerifyToken
    \/ ResetPassword

SpecSeed == InitBoot /\ [][NextSeed]_vars

\* SpecRoute: sessions and the guard of the dashboard pages
NextRoute ==
    \/ TickSession
    \/ CreateSession
    \/ ProtectRoute
    \/ GetSession
    \/ Logout

SpecRoute == Init /\ [][NextRoute]_vars

\* SpecAccess: sessions of every role and the feature check of the dashboards
NextAccess ==
    \/ TickSession
    \/ CreateSessionOf(RoleUserInputs)
    \/ HasAccess
    \/ Logout

SpecAccess == Init /\ [][NextAccess]_vars

\* SpecFirebase: the Firebase sign-in
NextFirebase ==
    \/ InitFirebase
    \/ SignInWithGoogle
    \/ PopupResolves
    \/ PopupRejects
    \/ SignOutResolves
    \/ SignOutRejects
    \/ FirebaseSignOut
    \/ FirebaseSignOutResolves
    \/ FirebaseSignOutRejects
    \/ GetCurrentUser
    \/ IsEmailAllowed

SpecFirebase == Init /\ [][NextFirebase]_vars

\* SpecClock: the session operations with a clock that may advance inside
\* createSession
NextClock ==
    \/ TickSession
    \/ CreateSessionClock
    \/ GetSession
    \/ IsLoggedIn
    \/ Logout

SpecClock == Init /\ [][NextClock]_vars

\* SpecAsync: the two simulated sign-in calls and their timeout callbacks
NextAsync ==
    \/ TickAsync
    \/ LoginWithSSO
    \/ SSOTimeout
    \/ LoginWithGoogle
    \/ GoogleTimeout

SpecAsync == Init /\ [][NextAsync]_vars

\* SpecStore: every operation of the interface, each with one input or two
TickStore == \E d \in StoreDelays : Tick(d)

NextStore ==
    \/ TickStore
    \/ InitAuth
    \/ Login /\ last'.args.email = EMAIL_USER_UPPER /\ last'.args.password = PW_NEW
    \/ RequestReset /\ last'.args.email = EMAIL_USER_UPPER
                    /\ inbox' = <<[token |-> generateResetToken(RND_LONG, now), at |-> now]>>
    \/ VerifyToken
    \/ ResetPassword
    \/ CreateSession /\ last'.args.user.email = EMAIL_USER
    \/ GetSession
    \/ Logout
    \/ LoginWithSSO /\ Len(timers') = 1 /\ timers'[1].args.domain = DOMAIN_INTUVIA
    \/ SSOTimeout
    \/ LoginWithGoogle /\ Len(timers') = 1 /\ timers'[1].args.selectedEmail = << >>
    \/ GoogleTimeout

SpecStore == Init /\ [][NextStore]_vars

\* SpecBoot: from the first page load of a fresh profile on; the handlers of
\* the forms run after the DOMContentLoaded handler of the page
NextBoot ==
    \/ InitAuth
    \/ last.op # "none" /\ TickReset
    \/ last.op # "none" /\ Login /\ last'.args.email = EMAIL_USER_UPPER
    \/ last.op # "none" /\ RequestReset /\ last'.args.email = EMAIL_USER_UPPER
    \/ last.op # "none" /\ ResetPassword

SpecBoot == InitBoot /\ [][NextBoot]_vars

\* SpecLoginForm: the login page, and the session it creates
NextLoginForm ==
    \/ TickForm
    \/ EditLoginForm /\ inputs'.email \in {EMAIL_USER_UPPER, EMAIL_MALFORMED}
                     /\ inputs'.password \in {PW_USER, PW_USER_LOWER}
    \/ SubmitLoginForm
    \/ LoginFormResume
    \/ LoginFormRedirect
    \/ LoadLoginPage
    \/ SetSignInBtnLoading
    \/ GetSession
    \/ Logout

SpecLoginForm == Init /\ [][NextLoginForm]_vars

\* SpecErrors: the operations that can fail, with inputs that make them fail
NextErrors ==
    \/ TickStore
    \/ Login /\ last'.args.password = PW_USER
    \/ RequestReset /\ last'.args.email # EMAIL_ADMIN /\ Len(inbox') <= 1
                    /\ (inbox' # << >> => inbox'[1].token = generateResetToken(RND_LONG, now))
    \/ VerifyToken
    \/ ResetPassword
    \/ LoginWithSSO /\ Len(timers') = 1
                    /\ timers'[1].args.domain \in {DOMAIN_EXAMPLE, DOMAIN_NOMATCH}
    \/ SSOTimeout

SpecErrors == Init /\ [][NextErrors]_vars

\* SpecLive: the two simulated sign-in calls with other operations in
\* between.  Time passes, and the event loop runs a timeout callback that is
\* due: the three are weakly fair.  Calls start while ticks < MaxTicks.
NextLive ==
    \/ AdvanceToTimer
    \/ LoginWithSSO /\ ticks < MaxTicks
                    /\ timers'[Len(timers')].args.domain \in {DOMAIN_INTUVIA, DOMAIN_NOMATCH}
    \/ SSOTimeout
    \/ LoginWithGoogle /\ ticks < MaxTicks
                       /\ truthy(timers'[Len(timers')].args.selectedEmail)
                       /\ timers'[Len(timers')].args.selectedEmail = EMAIL_NOBODY
    \/ GoogleTimeout
    \/ Logout
    \/ Login /\ last'.args.email = EMAIL_USER_UPPER /\ last'.args.password = PW_NEW
    \/ RequestReset /\ last'.args.email = EMAIL_USER_UPPER
                    /\ inbox'[1].token = generateResetToken(RND_LONG, now)
    \/ ResetPassword

SpecLive ==
    /\ Init
    /\ [][NextLive]_vars
    /\ WF_vars(AdvanceToTimer)
    /\ WF_vars(SSOTimeout)
    /\ WF_vars(GoogleTimeout)

(***************************************************************************)
(* Vocabulary of the properties: the failure categories are the messages   *)
(* the code returns.                                                       *)
(***************************************************************************)
AccountNotFound == "No account found with this email address."
InvalidCredentials == "Invalid email or password. Please try again."
NoActiveRequest == "Invalid or expired reset link."
TokenMismatch == "Invalid reset link."
Expired == "Reset link has expired. Please request a new one."
UserNotFound == "User not found."
NoEnterpriseMatch == "No enterprise users found for this domain."

Failure(category) == [success |-> FALSE, error |-> category]

\* the users the operations see in the current state, and in the next one
StoredUsers == getUsers(localStorage, DEMO_USERS)
StoredUsersNext == getUsers(localStorage', DEMO_USERS')

\* the indices of the stored users whose email is e, ignoring letter case
Matching(users, e) ==
    {i \in 1..Len(users) : toLowerCase(users[i].email) = toLowerCase(e)}

\* the content of the token slot and of the session slot
TokenSlot == localStorage[RESET_TOKEN_KEY]
TokenRecord == JSON_parse(localStorage[RESET_TOKEN_KEY])
SessionSlot == localStorage[SESSION_KEY]
SessionRecord == JSON_parse(localStorage[SESSION_KEY])

\* the step is a call of op (a repeated identical call that changes nothing
\* is a stuttering step)
Called(op) == last'.op = op /\ (last.op # op \/ last' # last)

(***************************************************************************)
(* C1: login returns AccountNotFound when no stored email equals the given *)
(* one ignoring case, InvalidCredentials when the user exists and the      *)
(* stored password differs from the given one, and otherwise success with  *)
(* the user's email, role, type and name.                                  *)
(***************************************************************************)
C1_LoginContract ==
    last.op = "validateLogin" =>
        LET users == StoredUsers
            m == Matching(users, last.args.email)
        IN  /\ m = {} => last.ret = Failure(AccountNotFound)
            /\ \A i \in m :
                /\ users[i].password # last.args.password
                      => last.ret = Failure(InvalidCredentials)
                /\ users[i].password = last.args.password
                      => last.ret = [success |-> TRUE,
                                     user |-> [email |-> users[i].email,
                                               role |-> users[i].role,
                                               type |-> users[i].type,
                                               name |-> users[i].name]]

\* a login that succeeded with an email written in another letter case
C1_Witness ==
    /\ last.op = "validateLogin"
    /\ last.ret.success
    /\ last.args.email # last.ret.user.email

(***************************************************************************)
(* C2: when requestReset(email) has succeeded and resetPassword is called  *)
(* with the issued token and a new password that differs from the user's   *)
(* current one, before the token expires, then login(email, new password)  *)
(* succeeds and login(email, old password) fails with InvalidCredentials.  *)
(***************************************************************************)
C2_EndToEndReset ==
    [][ ( /\ last.op = "handleForgotPassword"
          /\ last.ret.success
          /\ last'.op = "resetPassword"
          /\ last'.args.token = last.ret.resetUrl[2]
          /\ now <= DateParse(TokenRecord.expiresAt) )
        => \A i \in Matching(StoredUsers, last.args.email) :
              LET pOld == StoredUsers[i].password
                  pNew == last'.args.newPassword
              IN  pNew # pOld =>
                    /\ validateLogin(localStorage', DEMO_USERS', last.args.email, pNew).success
                    /\ validateLogin(localStorage', DEMO_USERS', last.args.email, pOld)
                          = Failure(InvalidCredentials) ]_vars

\* after a reset, a login with the new password has succeeded
C2_Witness ==
    /\ last.op = "validateLogin"
    /\ last.args.email = EMAIL_USER_UPPER
    /\ last.args.password = PW_NEW
    /\ last.ret.success
    /\ TokenSlot = NoItem
    /\ Len(inbox) > 0

(***************************************************************************)
(* C3: after two successive successful requestReset calls that issued t1   *)
(* and then t2, verifyToken(t1) fails with TokenMismatch and               *)
(* verifyToken(t2) succeeds before its expiry.                             *)
(***************************************************************************)
C3_SecondRequestInvalidatesFirst ==
    ( /\ last.op = "handleForgotPassword"
      /\ last.ret.success
      /\ Len(inbox) = 2
      /\ inbox[1].token = last.ret.resetUrl[2]
      /\ TokenSlot # NoItem
      /\ now <= DateParse(TokenRecord.expiresAt) )
    => /\ validateResetToken(localStorage, inbox[2].token, now).ret = Failure(TokenMismatch)
       /\ validateResetToken(localStorage, inbox[1].token, now).ret.success

(***************************************************************************)
(* C4: verifyToken fails with NoActiveRequest when the slot is empty; else *)
(* with TokenMismatch when the token differs from the stored one; else,    *)
(* when the stored expiry is strictly earlier than now, deletes the slot   *)
(* and fails with Expired; else succeeds with the email bound in the slot. *)
(***************************************************************************)
C4_VerifyTokenOrder ==
    [][ Called("validateResetToken") =>
          IF TokenSlot = NoItem
          THEN last'.ret = Failure(NoActiveRequest)
          ELSE IF last'.args.token # TokenRecord.token
          THEN last'.ret = Failure(TokenMismatch)
          ELSE IF DateParse(TokenRecord.expiresAt) < now
          THEN /\ last'.ret = Failure(Expired)
               /\ localStorage'[RESET_TOKEN_KEY] = NoItem
          ELSE last'.ret = [success |-> TRUE, email |-> TokenRecord.email] ]_vars

\* the expiry of the presented token has just been detected
C4_Witness ==
    /\ last.op = "validateResetToken"
    /\ last.ret = Failure(Expired)
    /\ TokenSlot = NoItem

(***************************************************************************)
(* C5: a reset token is single-use.  A successful resetPassword empties    *)
(* the token slot; the slot is filled again only by a successful           *)
(* requestReset; while it is empty every verifyToken and resetPassword     *)
(* fails with NoActiveRequest and changes no password.                     *)
(***************************************************************************)
C5_TokenSingleUse ==
    [][ /\ (Called("resetPassword") /\ last'.ret.success)
              => localStorage'[RESET_TOKEN_KEY] = NoItem
        /\ (TokenSlot = NoItem /\ localStorage'[RESET_TOKEN_KEY] # NoItem)
              => (last'.op = "handleForgotPassword" /\ last'.ret.success)
        /\ ( /\ TokenSlot = NoItem
             /\ Called("validateResetToken") \/ Called("resetPassword") )
              => /\ last'.ret = Failure(NoActiveRequest)
                 /\ StoredUsersNext = StoredUsers
                 /\ localStorage'[RESET_TOKEN_KEY] = NoItem ]_vars

\* a token that was issued and used is presented again and refused
C5_Witness ==
    /\ last.op = "resetPassword"
    /\ last.ret = Failure(NoActiveRequest)
    /\ \E i \in 1..Len(inbox) : inbox[i].token = last.args.token
    /\ \E i \in 1..Len(StoredUsers) : StoredUsers[i].password = PW_NEW

(***************************************************************************)
(* C6: createSession(u) followed by getSession(), the clock not advanced   *)
(* past the expiry, returns a record whose email, role, type and name are  *)
(* those of u.                                                             *)
(***************************************************************************)
C6_SessionRoundTrip ==
    [][ ( /\ last.op = "createSession"
          /\ last'.op = "getSession"
          /\ now <= DateParse(SessionRecord.loginTime) + SESSION_TTL )
        => /\ last'.ret # null
           /\ last'.ret.email = last.args.user.email
           /\ last'.ret.role = last.args.user.role
           /\ last'.ret.type = last.args.user.type
           /\ last'.ret.name = last.args.user.name ]_vars

\* a session read back some time after its creation
C6_Witness ==
    /\ last.op = "getSession"
    /\ last.ret # null
    /\ last.ret.email = EMAIL_USER
    /\ now > DateParse(last.ret.loginTime)

(***************************************************************************)
(* C7: getSession returns no session when the slot is empty; when the      *)
(* stored expiresAt is strictly earlier than now it deletes the slot and   *)
(* returns no session; otherwise, also when expiresAt equals now, it       *)
(* returns the stored record and leaves the slot unchanged.  The passing   *)
(* of time alone deletes nothing.                                          *)
(***************************************************************************)
C7_LazySessionExpiry ==
    [][ /\ Called("getSession") =>
              IF SessionSlot = NoItem
              THEN last'.ret = null /\ localStorage' = localStorage
              ELSE IF DateParse(SessionRecord.expiresAt) < now
              THEN last'.ret = null /\ localStorage'[SESSION_KEY] = NoItem
              ELSE last'.ret = SessionRecord /\ localStorage' = localStorage
        /\ now' # now => localStorage' = localStorage ]_vars

\* a session read at the very instant of its expiry is still returned
C7_Witness ==
    /\ last.op = "getSession"
    /\ last.ret # null
    /\ DateParse(last.ret.expiresAt) = now

(***************************************************************************)
(* C8: the session slot holds at most one record, and after                *)
(* createSession(u1) followed by createSession(u2) getSession returns the  *)
(* fields of u2, not those of u1.                                          *)
(***************************************************************************)
C8_SingleSlotSession ==
    [][ /\ localStorage'[SESSION_KEY] # NoItem =>
              LET slot == localStorage'[SESSION_KEY]
              IN  /\ \A i, j \in 1..Len(slot) : slot[i][1] = slot[j][1] => i = j
                  /\ {slot[i][1] : i \in 1..Len(slot)}
                        = {"email", "role", "type", "name", "loginTime", "expiresAt"}
        /\ (last.op = "createSession" /\ Called("createSession"))
              => LET r == getSession(localStorage', now').ret
                     view == [email |-> r.email, role |-> r.role,
                              type |-> r.type, name |-> r.name]
                 IN  /\ r # null
                     /\ view = last'.args.user
                     /\ last.args.user # last'.args.user => view # last.args.user ]_vars

\* a session of one user written at a later time than the clock's start
C8_Witness ==
    /\ last.op = "createSession"
    /\ SessionSlot # NoItem
    /\ SessionRecord.email = last.args.user.email
    /\ DateParse(SessionRecord.loginTime) > 0

(***************************************************************************)
(* C9: a successful verifyToken(t) leaves the token slot unchanged; until  *)
(* the expiry a further verifyToken(t) succeeds with the same email and a  *)
(* resetPassword(t, p) succeeds.                                           *)
(***************************************************************************)
C9_VerifyKeepsToken ==
    [][ (last'.op = "validateResetToken" /\ last'.ret.success) =>
          /\ Called("validateResetToken") => localStorage' = localStorage
          /\ localStorage'[RESET_TOKEN_KEY] # NoItem
          /\ now' <= DateParse(JSON_parse(localStorage'[RESET_TOKEN_KEY]).expiresAt) =>
                /\ validateResetToken(localStorage', last'.args.token, now').ret = last'.ret
                /\ \A p \in NewPasswordInputs :
                      resetPassword(localStorage', DEMO_USERS', last'.args.token, p, now').ret.success ]_vars

\* a token verified some time after it was issued, still in its slot
C9_Witness ==
    /\ last.op = "validateResetToken"
    /\ last.ret.success
    /\ TokenSlot # NoItem
    /\ now > DateParse(TokenRecord.expiresAt) - RESET_TTL

(***************************************************************************)
(* C10: resetPassword with a token that verifyToken accepts sets the       *)
(* password of the user bound in the slot to the new password, leaves      *)
(* every other user and every other field as they were, deletes the token  *)
(* slot and returns success.                                               *)
(***************************************************************************)
C10_ResetPasswordEffect ==
    [][ ( /\ Called("resetPassword")
          /\ TokenSlot # NoItem
          /\ last'.args.token = TokenRecord.token
          /\ ~(DateParse(TokenRecord.expiresAt) < now) )
        => /\ last'.ret.success
           /\ localStorage'[RESET_TOKEN_KEY] = NoItem
           /\ Len(StoredUsersNext) = Len(StoredUsers)
           /\ \A i \in 1..Len(StoredUsers) :
                 StoredUsersNext[i] =
                    IF i \in Matching(StoredUsers, TokenRecord.email)
                    THEN [StoredUsers[i] EXCEPT !.password = last'.args.newPassword]
                    ELSE StoredUsers[i] ]_vars

\* the password of one user was reset, that of another is the seeded one
C10_Witness ==
    /\ last.op = "resetPassword"
    /\ last.ret.success
    /\ StoredUsers[2].password = PW_NEW
    /\ StoredUsers[4].password = PW_USER
    /\ TokenSlot = NoItem

(***************************************************************************)
(* C11: requestReset(email) fails with AccountNotFound and leaves the      *)
(* token slot unchanged when no stored email equals the given one ignoring *)
(* case; otherwise it puts the matched user's email, a newly generated     *)
(* token and the expiry now + 30 minutes in the token slot, whatever the   *)
(* slot held, and returns success with a reset URL that carries exactly    *)
(* the stored token.                                                       *)
(***************************************************************************)
C11_RequestResetContract ==
    [][ Called("handleForgotPassword") =>
          LET m == Matching(StoredUsers, last'.args.email)
              slot == localStorage'[RESET_TOKEN_KEY]
          IN  IF m = {}
              THEN /\ last'.ret = Failure(AccountNotFound)
                   /\ slot = TokenSlot
              ELSE /\ slot # NoItem
                   /\ \A i, j \in 1..Len(slot) : slot[i][1] = slot[j][1] => i = j
                   /\ DOMAIN JSON_parse(slot) = {"email", "token", "expiresAt"}
                   /\ \A i \in m : JSON_parse(slot).email = StoredUsers[i].email
                   /\ \E rnd \in RandomValues :
                         JSON_parse(slot).token = generateResetToken(rnd, now)
                   /\ DateParse(JSON_parse(slot).expiresAt) = now' + RESET_TTL
                   /\ last'.ret.success
                   /\ last'.ret.resetUrl = <<"reset-password.html?token=", JSON_parse(slot).token>> ]_vars

\* a request with a case variant of a stored email has replaced another token
C11_Witness ==
    /\ last.op = "handleForgotPassword"
    /\ last.ret.success
    /\ last.args.email = EMAIL_USER_UPPER
    /\ TokenSlot # NoItem
    /\ TokenRecord.email = EMAIL_USER
    /\ Len(inbox) = 2
    /\ inbox[1].token # inbox[2].token
    /\ TokenRecord.token = inbox[1].token

(***************************************************************************)
(* C12: login is idempotent and read-only.  A login leaves the users,      *)
(* session and reset-token slots as they were, so the same call repeated   *)
(* at once returns the same value; a successful login returns exactly the  *)
(* email, role, type and name of the user and no login result carries a    *)
(* password.                                                               *)
(***************************************************************************)
C12_LoginReadOnly ==
    [][ last'.op = "validateLogin" =>
          /\ localStorage' = localStorage
          /\ DEMO_USERS' = DEMO_USERS
          /\ validateLogin(localStorage', DEMO_USERS',
                           last'.args.email, last'.args.password) = last'.ret
          /\ "password" \notin DOMAIN last'.ret
          /\ last'.ret.success =>
                DOMAIN last'.ret.user = {"email", "role", "type", "name"} ]_vars

\* a login with the seeded password of a user has succeeded
C12_Witness ==
    /\ last.op = "validateLogin"
    /\ last.ret.success
    /\ last.args.password = PW_USER
    /\ StoredUsers[4].password = PW_USER
    /\ last.ret.user = SanitizedView(StoredUsers[4])

(***************************************************************************)
(* C13: loginWithSSO(domain) resolves to the failure NoEnterpriseMatch     *)
(* when no stored user has the type enterprise and an email that ends in   *)
(* '@' followed by the domain; otherwise to success with the email, role,  *)
(* type and name of the first such user in store order.  On the seeded     *)
(* store intuvia.com gives the Super Admin and nomatch.com gives           *)
(* NoEnterpriseMatch.                                                      *)
(***************************************************************************)
C13_LoginWithSSO ==
    [][ (last'.op = "loginWithSSO" /\ Len(timers') < Len(timers)) =>
          LET users == StoredUsers
              tail == <<"@">> \o last'.args.domain
              cand == {i \in 1..Len(users) :
                         /\ users[i].type = "enterprise"
                         /\ \E k \in 0..Len(users[i].email) :
                               SubSeq(users[i].email, k + 1, Len(users[i].email)) = tail}
          IN  /\ cand = {} => last'.ret = Failure(NoEnterpriseMatch)
              /\ \A i \in cand :
                    (\A j \in cand : i <= j)
                       => last'.ret = [success |-> TRUE, user |-> SanitizedView(users[i])]
              /\ last'.args.domain = DOMAIN_INTUVIA
                    => /\ last'.ret.success
                       /\ last'.ret.user.role = "Super Admin"
                       /\ last'.ret.user.email = EMAIL_SUPERADMIN
              /\ last'.args.domain = DOMAIN_NOMATCH
                    => last'.ret = Failure(NoEnterpriseMatch) ]_vars

\* the promise of loginWithSSO("intuvia.com") was resolved with the first of
\* the three enterprise users of that domain
C13_Witness ==
    /\ last.op = "loginWithSSO"
    /\ last.args.domain = DOMAIN_INTUVIA
    /\ last.ret.success
    /\ last.ret.user.name = "John Smith"
    /\ now >= SSO_DELAY

(***************************************************************************)
(* C14: loginWithGoogle resolves with success for every hint, given or     *)
(* absent, and every store; the value carries the email, role, type and    *)
(* name of a user and no password; the users store is not written: a user  *)
(* made up by the call has the role Attendee and is not stored, so a login *)
(* with its email fails with AccountNotFound.                              *)
(***************************************************************************)
C14_LoginWithGoogle ==
    [][ (last'.op = "loginWithGoogle" /\ Len(timers') < Len(timers)) =>
          LET user == last'.ret.user
              stored == {SanitizedView(StoredUsers[i]) : i \in 1..Len(StoredUsers)}
          IN  /\ last'.ret.success
              /\ DOMAIN last'.ret = {"success", "user"}
              /\ DOMAIN user = {"email", "role", "type", "name"}
              /\ localStorage' = localStorage
              /\ DEMO_USERS' = DEMO_USERS
              /\ user \notin stored =>
                    /\ user.role = "Attendee"
                    /\ \A password \in {PW_USER, PW_NEW} :
                          validateLogin(localStorage', DEMO_USERS', user.email, password)
                             = Failure(AccountNotFound) ]_vars

(***************************************************************************)
(* C15: from the initialized store on, the users slot holds the five       *)
(* seeded users with their seeded email, role, type and name, in seed      *)
(* order; a password differs from its previous value only through a        *)
(* successful resetPassword whose token is bound to that user; login,      *)
(* requestReset, verifyToken, createSession, getSession, logout,           *)
(* loginWithSSO and loginWithGoogle leave the users slot as it was.        *)
(***************************************************************************)
C15_CredentialStore ==
    [][ LET before == JSON_parse_array(localStorage[USERS_KEY])
            after == JSON_parse_array(localStorage'[USERS_KEY])
        IN  /\ localStorage'[USERS_KEY] # NoItem
            /\ Len(after) = Len(DEMO_USERS_INIT)
            /\ \A i \in 1..Len(after) :
                  /\ DOMAIN after[i] = {"email", "password", "role", "type", "name"}
                  /\ SanitizedView(after[i]) = SanitizedView(DEMO_USERS_INIT[i])
                  /\ after[i].password # before[i].password =>
                        /\ last'.op = "resetPassword"
                        /\ last'.ret.success
                        /\ after[i].password = last'.args.newPassword
                        /\ TokenSlot # NoItem
                        /\ last'.args.token = TokenRecord.token
                        /\ toLowerCase(TokenRecord.email) = toLowerCase(before[i].email)
            /\ localStorage'[USERS_KEY] # localStorage[USERS_KEY] =>
                  /\ last'.op = "resetPassword"
                  /\ timers' = timers
                  /\ now' = now ]_vars

\* after a password reset, the creation of a session and a sign-in through
\* the domain, the store has the five users
C15_Witness ==
    /\ last.op = "loginWithSSO"
    /\ last.ret.success
    /\ SessionSlot # NoItem
    /\ TokenSlot = NoItem
    /\ StoredUsers[4].password = PW_NEW
    /\ StoredUsers[5].password = PW_ORGANIZER
    /\ Len(StoredUsers) = 5

(***************************************************************************)
(* C16: initAuth writes the seed list when the users slot is absent and    *)
(* leaves a slot that holds users as it is, also after a password was      *)
(* reset; a second initAuth changes nothing.                               *)
(***************************************************************************)
C16_InitAuthIdempotent ==
    [][ Called("initAuth") =>
          /\ localStorage[USERS_KEY] = NoItem
                => JSON_parse_array(localStorage'[USERS_KEY]) = DEMO_USERS_INIT
          /\ localStorage[USERS_KEY] # NoItem => localStorage' = localStorage
          /\ localStorage'[SESSION_KEY] = localStorage[SESSION_KEY]
          /\ localStorage'[RESET_TOKEN_KEY] = localStorage[RESET_TOKEN_KEY]
          /\ initAuth(localStorage', DEMO_USERS') = localStorage' ]_vars

\* initAuth has run on a store in which a password had been reset
C16_Witness ==
    /\ last.op = "initAuth"
    /\ localStorage[USERS_KEY] # NoItem
    /\ StoredUsers[4].password = PW_NEW
    /\ StoredUsers[1].password = PW_ADMIN
    /\ TokenSlot = NoItem

(***************************************************************************)
(* C17: in the login form flow createSession is called only after          *)
(* validateLogin returned success for the submitted email and password,    *)
(* the values the fields held at the submit event, and with exactly the    *)
(* user view validateLogin returned; a submission that fails the field     *)
(* validation and a login that fails leave the session slot as it was.     *)
(* The slot becomes empty only through logout or through the expiry test   *)
(* inside getSession.                                                      *)
(***************************************************************************)
C17_SessionOnlyThroughLogin ==
    [][ LET slot == localStorage'[SESSION_KEY]
        IN  /\ (slot # NoItem /\ slot # SessionSlot) =>
                  /\ last'.op = "loginForm.login"
                  /\ LET submitted == last'.args.submitted
                         result == validateLogin(localStorage, DEMO_USERS,
                                                 submitted.email, submitted.password)
                     IN  /\ result.success
                         /\ SanitizedView(JSON_parse(slot)) = result.user
            /\ (Called("loginForm.submit") /\ ~last'.ret.valid) =>
                  /\ slot = SessionSlot
                  /\ timers' = timers
            /\ (last'.op = "loginForm.login" /\ ~last'.ret.success) => slot = SessionSlot
            /\ (SessionSlot # NoItem /\ slot = NoItem) =>
                  \/ last'.op = "logout"
                  \/ /\ last'.op \in {"getSession", "redirectToDashboard", "initLoginForm"}
                     /\ last'.ret = null
                     /\ DateParse(SessionRecord.expiresAt) < now' ]_vars

(***************************************************************************)
(* C18: logout empties the session slot whether or not it held a session,  *)
(* so that getSession returns no session and isLoggedIn is false right     *)
(* after it; a second logout changes nothing; the users slot and the       *)
(* reset-token slot are left as they were.                                 *)
(***************************************************************************)
C18_Logout ==
    [][ Called("logout") =>
          /\ localStorage'[SESSION_KEY] = NoItem
          /\ localStorage'[USERS_KEY] = localStorage[USERS_KEY]
          /\ localStorage'[RESET_TOKEN_KEY] = localStorage[RESET_TOKEN_KEY]
          /\ getSession(localStorage', now').ret = null
          /\ isLoggedIn(localStorage', now').ret = FALSE
          /\ logout(localStorage') = localStorage' ]_vars

\* a logout while a reset link is outstanding
C18_Witness ==
    /\ last.op = "logout"
    /\ SessionSlot = NoItem
    /\ TokenSlot # NoItem
    /\ TokenRecord.email = EMAIL_USER
    /\ Len(StoredUsers) = 5

(***************************************************************************)
(* C19: in every state and at every clock value isLoggedIn is true exactly *)
(* when getSession, called in that state, returns a record, that is when   *)
(* the slot holds a session whose expiry is not earlier than now;          *)
(* getUserRole and getUserType return the role and the type of that        *)
(* record, and null when getSession returns no session, an expired session *)
(* included.                                                               *)
(***************************************************************************)
C19_SessionQueries ==
    LET session == getSession(localStorage, now)
        live == SessionSlot # NoItem /\ ~(DateParse(SessionRecord.expiresAt) < now)
    IN  /\ (session.ret # null) = live
        /\ isLoggedIn(localStorage, now).ret = live
        /\ getUserRole(localStorage, now).ret =
              IF live THEN [value |-> SessionRecord.role] ELSE null
        /\ getUserType(localStorage, now).ret =
              IF live THEN [value |-> SessionRecord.type] ELSE null
        /\ isLoggedIn(localStorage, now).ls = session.ls
        /\ getUserRole(localStorage, now).ls = session.ls
        /\ getUserType(localStorage, now).ls = session.ls
        /\ last.op = "isLoggedIn" => last.ret.bool = (SessionSlot # NoItem)
        /\ (last.op \in {"getUserRole", "getUserType"} /\ SessionSlot = NoItem)
              => last.ret = null

\* the role was asked for at the very instant the session expires
C19_Witness ==
    /\ last.op = "getUserRole"
    /\ SessionSlot # NoItem
    /\ last.ret = [value |-> SessionRecord.role]
    /\ DateParse(SessionRecord.expiresAt) = now

(***************************************************************************)
(* C20: every call of login, requestReset, verifyToken, resetPassword and  *)
(* loginWithSSO returns a value with a success flag; when the call fails   *)
(* the value is the flag with an error that is the message of one of the   *)
(* categories the operation can fail with; the messages of the three       *)
(* failures of verifyToken differ from one another.                        *)
(***************************************************************************)
C20_FailuresAreValues ==
    LET categories ==
            CASE last.op = "validateLogin" -> {AccountNotFound, InvalidCredentials}
              [] last.op = "handleForgotPassword" -> {AccountNotFound}
              [] last.op = "validateResetToken" -> {NoActiveRequest, TokenMismatch, Expired}
              [] last.op = "resetPassword" ->
                    {NoActiveRequest, TokenMismatch, Expired, UserNotFound}
              [] last.op = "loginWithSSO" -> {NoEnterpriseMatch}
              [] OTHER -> {}
    IN  /\ categories # {} =>
              /\ "success" \in DOMAIN last.ret
              /\ last.ret.success \in BOOLEAN
              /\ ~last.ret.success =>
                    /\ DOMAIN last.ret = {"success", "error"}
                    /\ last.ret.error \in categories
        /\ Cardinality({NoActiveRequest, TokenMismatch, Expired}) = 3
        /\ Cardinality({AccountNotFound, InvalidCredentials, NoEnterpriseMatch,
                        NoActiveRequest, TokenMismatch, Expired, UserNotFound}) = 7

\* a reset with an expired link has failed with the message of its category
C20_Witness ==
    /\ last.op = "resetPassword"
    /\ last.ret = Failure(Expired)
    /\ TokenSlot = NoItem
    /\ now > RESET_TTL

PendingCall(op, arg) ==
    \E i \in 1..Len(timers) :
        /\ timers[i].op = op
        /\ \/ op = "loginWithSSO" /\ timers[i].args.domain = arg
           \/ op = "loginWithGoogle" /\ timers[i].args.selectedEmail = arg

ResolvedCall(op, arg) ==
    /\ ~PendingCall(op, arg)
    /\ last.op = op
    /\ \/ op = "loginWithSSO" /\ last.args.domain = arg
       \/ op = "loginWithGoogle" /\ last.args.selectedEmail = arg
    /\ "success" \in DOMAIN last.ret

(***************************************************************************)
(* C21: every loginWithSSO and loginWithGoogle call that was started       *)
(* resolves, once, when its timer has fired, whatever logout, login,       *)
(* requestReset or resetPassword is called while it is pending: a pending  *)
(* call leaves the pending ones only by its own timeout callback, not      *)
(* before it is due and one call at a time, and every pending call         *)
(* eventually is resolved.                                                 *)
(***************************************************************************)
C21_CallsResolve ==
    /\ [][ timers' # timers =>
              \/ /\ Len(timers') = Len(timers) + 1
                 /\ SubSeq(timers', 1, Len(timers)) = timers
                 /\ timers'[Len(timers')].due > now
              \/ \E i \in 1..Len(timers) :
                    /\ timers' = RemoveAt(timers, i)
                    /\ timers[i].due <= now
                    /\ last'.op = timers[i].op
                    /\ last'.args = timers[i].args ]_vars
    /\ \A domain \in {DOMAIN_INTUVIA, DOMAIN_NOMATCH} :
          PendingCall("loginWithSSO", domain) ~> ResolvedCall("loginWithSSO", domain)
    /\ PendingCall("loginWithGoogle", EMAIL_NOBODY)
          ~> ResolvedCall("loginWithGoogle", EMAIL_NOBODY)

\* a call started after a password reset has been resolved
C21_Witness ==
    /\ last.op = "loginWithSSO"
    /\ last.ret.success
    /\ timers = << >>
    /\ StoredUsers[4].password = PW_NEW
    /\ now >= 2 * SSO_DELAY

(***************************************************************************)
(* C22: every session record written by createSession has expiresAt equal  *)
(* to its own loginTime plus 24 hours exactly.                             *)
(***************************************************************************)
C22_ExpiryIsLoginTimePlusTTL ==
    SessionSlot # NoItem
        => DateParse(SessionRecord.expiresAt)
             = DateParse(SessionRecord.loginTime) + SESSION_TTL

Satisfies(k, s) ==
    CASE k = 1 -> Len(s) >= 8
      [] k = 2 -> \E i \in 1..Len(s) : s[i] \in UpperChars
      [] k = 3 -> \E i \in 1..Len(s) : s[i] \in LowerChars
      [] k = 4 -> \E i \in 1..Len(s) : s[i] \in DigitChars
      [] k = 5 -> \E i \in 1..Len(s) : s[i] \in SpecialChars

(***************************************************************************)
(* C23: for every string s, the score of checkPasswordStrength(s) is the   *)
(* number of the five requirements s satisfies (length >= 8, an uppercase  *)
(* letter, a lowercase letter, a digit, a symbol of the punctuation set);  *)
(* the label is weak iff score <= 2, medium iff score is 3 or 4, strong    *)
(* iff score = 5; allMet iff score = 5; "" scores 0 and is weak and        *)
(* "Abcdef1!" scores 5 and is strong.                                      *)
(***************************************************************************)
C23_StrengthScore ==
    last.op = "checkPasswordStrength" =>
        LET s == last.args.password
            r == last.ret
        IN  /\ r.score = Cardinality({k \in 1..5 : Satisfies(k, s)})
            /\ r.strength = "weak" <=> r.score <= 2
            /\ r.strength = "medium" <=> r.score \in {3, 4}
            /\ r.strength = "strong" <=> r.score = 5
            /\ r.allMet <=> r.score = 5
            /\ s = << >> => r.score = 0 /\ r.strength = "weak"
            /\ s = PW_EXAMPLE => r.score = 5 /\ r.strength = "strong"

\* a password of seven characters that meets the four other requirements
C23_Witness ==
    /\ last.op = "checkPasswordStrength"
    /\ Len(last.args.password) = 7
    /\ last.ret.score = 4
    /\ last.ret.strength = "medium"
    /\ ~last.ret.allMet

Required == [valid |-> FALSE, message |-> MESSAGES.required]
InvalidFormat == [valid |-> FALSE, message |-> MESSAGES.email]
Valid == [valid |-> TRUE, message |-> ""]

WhitespaceOnly(s) == \A i \in 1..Len(s) : s[i] = " "

HasShape(s) ==
    \E at, dot \in 1..Len(s) :
        /\ s[at] = "@"
        /\ at >= 2
        /\ s[dot] = "."
        /\ dot >= at + 2
        /\ dot + 1 <= Len(s)

(***************************************************************************)
(* C24 as stated: validateEmail(s) returns Required when s is empty or     *)
(* white space only; otherwise InvalidFormat when s does not have the      *)
(* shape local@domain.tld, that is at least one character before '@', at   *)
(* least one after it, then a '.' followed by at least one character;      *)
(* otherwise valid.                                                        *)
(***************************************************************************)
C24_ValidateEmail_Original ==
    last.op = "validateEmail" =>
        LET s == last.args.email
        IN  last.ret = IF WhitespaceOnly(s) THEN Required
                       ELSE IF ~HasShape(s) THEN InvalidFormat
                       ELSE Valid

(***************************************************************************)
(* C24 amended: as stated, where the shape also requires that s contains   *)
(* no white space and no '@' other than the separating one.                *)
(***************************************************************************)
C24_ValidateEmail ==
    last.op = "validateEmail" =>
        LET s == last.args.email
            plain == /\ \A i \in 1..Len(s) : s[i] # " "
                     /\ Cardinality({i \in 1..Len(s) : s[i] = "@"}) = 1
        IN  last.ret = IF WhitespaceOnly(s) THEN Required
                       ELSE IF ~(HasShape(s) /\ plain) THEN InvalidFormat
                       ELSE Valid

\* an address with two dots after the '@' has been accepted
C24_Witness ==
    /\ last.op = "validateEmail"
    /\ last.args.email = <<"a", "@", "b", ".", "c", ".", "d">>
    /\ last.ret = Valid

(***************************************************************************)
(* C25: getDashboardUrl maps Super Admin to the superadmin dashboard,      *)
(* Admin to the admin dashboard, Viewer to the viewer dashboard, Attendee  *)
(* and Organizer to the user dashboard, and every other role value, a      *)
(* missing one included, to the user dashboard; redirectToDashboard        *)
(* navigates to that URL for the role of the current session and does not  *)
(* navigate when there is no valid session.                                *)
(***************************************************************************)
RoutingTable(role) ==
    IF role = "Super Admin" THEN "dashboard-superadmin.html"
    ELSE IF role = "Admin" THEN "dashboard-admin.html"
    ELSE IF role = "Viewer" THEN "dashboard-viewer.html"
    ELSE "dashboard-user.html"

C25_DashboardRouting ==
    /\ last.op = "getDashboardUrl"
          => last.ret = RoutingTable(last.args.role)
    /\ last.op = "redirectToDashboard"
          => IF SessionSlot = NoItem
             THEN last.ret = null
             ELSE /\ last.ret # null
                  /\ last.ret.value = RoutingTable(SessionRecord.role)

ExpiredPresent == TokenSlot # NoItem /\ DateParse(TokenRecord.expiresAt) < now

TokenRead == Called("validateResetToken") \/ Called("resetPassword")

(***************************************************************************)
(* C26 as stated: whenever the token slot holds a record whose expiry has  *)
(* passed, the next verifyToken or resetPassword call, whatever token it   *)
(* is given, leaves the token slot empty.                                  *)
(***************************************************************************)
C26_ExpiredCollapses_Original ==
    [][ ExpiredPresent /\ TokenRead => TokenSlot' = NoItem ]_vars

(***************************************************************************)
(* C26 amended: whenever the token slot holds a record whose expiry has    *)
(* passed, the next verifyToken or resetPassword call given the stored     *)
(* token fails with Expired and leaves the slot empty; a call given        *)
(* another token fails with TokenMismatch and leaves the record in place.  *)
(***************************************************************************)
C26_ExpiredCollapses ==
    [][ ExpiredPresent /\ TokenRead =>
            IF last'.args.token = TokenRecord.token
            THEN TokenSlot' = NoItem /\ last'.ret = Failure(Expired)
            ELSE TokenSlot' = TokenSlot /\ last'.ret = Failure(TokenMismatch) ]_vars

\* the issued token was verified after its expiry and the slot is empty
C26_Witness ==
    /\ last.op = "validateResetToken"
    /\ inbox # << >>
    /\ last.args.token = inbox[1].token
    /\ last.ret = Failure(Expired)
    /\ TokenSlot = NoItem

\* the times at which a requestReset returned a link with this token
IssuedAt(token) == {inbox[i].at : i \in {j \in 1..Len(inbox) : inbox[j].token = token}}

(***************************************************************************)
(* C27: resetPassword changes a password only when it is called no later   *)
(* than 30 minutes after the requestReset that issued the presented token; *)
(* presenting the stored token after its expiry changes no password,       *)
(* fails with Expired and deletes the slot.                                *)
(***************************************************************************)
C27_TokenTimeLimited ==
    [][ Called("resetPassword") =>
          /\ StoredUsersNext # StoredUsers
                => \E t \in IssuedAt(last'.args.token) : now <= t + RESET_TTL
          /\ ( /\ TokenSlot # NoItem
               /\ last'.args.token = TokenRecord.token
               /\ now > DateParse(TokenRecord.expiresAt) )
                => /\ StoredUsersNext = StoredUsers
                   /\ last'.ret = Failure(Expired)
                   /\ TokenSlot' = NoItem ]_vars

\* a password was changed exactly 30 minutes after the request returned,
\* with a token that carries the time of the millisecond before
C27_Witness ==
    /\ last.op = "resetPassword"
    /\ last.ret.success
    /\ IssuedAt(last.args.token) # {}
    /\ \A t \in IssuedAt(last.args.token) :
          /\ now = t + RESET_TTL
          /\ t > 0
          /\ \E rnd \in RandomValues : last.args.token = generateResetToken(rnd, t - 1)
    /\ \E i \in 1..Len(StoredUsers) : StoredUsers[i].password = PW_NEW

(***************************************************************************)
(* C28: when resetPassword fails with NoActiveRequest, TokenMismatch or    *)
(* Expired it returns the failure verifyToken returns for that token in    *)
(* that state and the users store is unchanged; on TokenMismatch the token *)
(* slot is unchanged too, so the issued token is verified afterwards as it *)
(* was before.                                                             *)
(***************************************************************************)
C28_ResetFailures ==
    [][ ( /\ Called("resetPassword")
          /\ ~last'.ret.success
          /\ last'.ret.error \in {NoActiveRequest, TokenMismatch, Expired} )
        => /\ last'.ret = validateResetToken(localStorage, last'.args.token, now).ret
           /\ StoredUsersNext = StoredUsers
           /\ localStorage'[USERS_KEY] = localStorage[USERS_KEY]
           /\ DEMO_USERS' = DEMO_USERS
           /\ last'.ret.error = TokenMismatch
                 => /\ TokenSlot' = TokenSlot
                    /\ validateResetToken(localStorage', TokenRecord.token, now)
                         = validateResetToken(localStorage, TokenRecord.token, now) ]_vars

\* a reset with a wrong token failed while an unexpired token is stored
C28_Witness ==
    /\ last.op = "resetPassword"
    /\ last.ret = Failure(TokenMismatch)
    /\ TokenSlot # NoItem
    /\ validateResetToken(localStorage, TokenRecord.token, now).ret.success
    /\ \A i \in 1..Len(StoredUsers) : StoredUsers[i].password # PW_NEW

HintGiven(hint) == hint # null /\ hint # << >>
HintFound(hint) == \E i \in 1..Len(StoredUsers) : StoredUsers[i].email = hint
NormalUsers == {i \in 1..Len(StoredUsers) : StoredUsers[i].type = "normal"}
FirstNormal == StoredUsers[CHOOSE i \in NormalUsers : \A j \in NormalUsers : i <= j]
Synthesized(user) == user.name = "Google User" /\ user.role = "Attendee"

\* the step is the timeout callback of a loginWithGoogle call
GoogleResolves == last'.op = "loginWithGoogle" /\ Len(timers') < Len(timers)

(***************************************************************************)
(* C29 as stated: loginWithGoogle(hint) with a hint that matches no stored *)
(* user, while the store has a user of type normal, resolves to the first  *)
(* user of type normal in store order; a synthesized Attendee user is      *)
(* returned only when neither the hint lookup nor the normal-user fallback *)
(* finds a user.                                                           *)
(***************************************************************************)
C29_GoogleFallback_Original ==
    [][ GoogleResolves =>
          LET hint == last'.args.selectedEmail
              user == last'.ret.user
          IN  /\ (HintGiven(hint) /\ ~HintFound(hint) /\ NormalUsers # {})
                    => user = SanitizedView(FirstNormal)
              /\ Synthesized(user)
                    => /\ ~(HintGiven(hint) /\ HintFound(hint))
                       /\ NormalUsers = {} ]_vars

(***************************************************************************)
(* C29 amended: loginWithGoogle(hint) with a hint that equals no stored    *)
(* email resolves to a synthesized Attendee user whose email is the hint,  *)
(* also while the store has a user of type normal; the first user of type  *)
(* normal in store order is the result when no hint is given; a            *)
(* synthesized user is returned only when the one lookup that was made,    *)
(* by the hint if given and else by type, finds no user.                   *)
(***************************************************************************)
C29_GoogleFallback ==
    [][ GoogleResolves =>
          LET hint == last'.args.selectedEmail
              user == last'.ret.user
          IN  /\ (HintGiven(hint) /\ ~HintFound(hint))
                    => Synthesized(user) /\ user.email = hint
              /\ (~HintGiven(hint) /\ NormalUsers # {})
                    => user = SanitizedView(FirstNormal)
              /\ Synthesized(user)
                    => IF HintGiven(hint) THEN ~HintFound(hint)
                                          ELSE NormalUsers = {} ]_vars

\* an unknown hint was resolved to a made-up user while the store holds
\* normal users
C29_Witness ==
    /\ last.op = "loginWithGoogle"
    /\ HintGiven(last.args.selectedEmail)
    /\ last.args.selectedEmail = EMAIL_NOBODY
    /\ last.ret.user.email = EMAIL_NOBODY
    /\ Synthesized(last.ret.user)
    /\ NormalUsers # {}

(***************************************************************************)
(* C30: every password written to the users store through the             *)
(* reset-password form satisfies all five strength requirements and equals *)
(* the confirmation value: resetPassword is called only with a value for   *)
(* which validatePassword(value, true) and validatePasswordMatch(value,    *)
(* confirmation) succeeded, also when the fields are edited during the     *)
(* 1000 ms delay between the validations and the call.                     *)
(***************************************************************************)
C30_ResetFormPassword ==
    [][ ( /\ last'.op = "resetForm.resetPassword"
          /\ Len(timers') <= Len(timers)
          /\ \E i \in 1..Len(timers) : timers[i].op = "resetForm.await" )
        => LET value == last'.args.newPassword
               validated == last'.args.validated
           IN  /\ value = validated.newPassword
               /\ value = validated.confirmPassword
               /\ last'.ret.success
                     => /\ \A k \in 1..5 : Satisfies(k, value)
                        /\ \E u \in 1..Len(StoredUsersNext) :
                              StoredUsersNext[u].password = value ]_vars

C32_TokenNamesStoredUser ==
    [][ /\ localStorage'[RESET_TOKEN_KEY] # NoItem
              => \E u \in 1..Len(StoredUsersNext) :
                    StoredUsersNext[u].email
                      = JSON_parse(localStorage'[RESET_TOKEN_KEY]).email
        /\ Called("resetPassword")
              => /\ last'.ret # Failure(UserNotFound)
                 /\ (TokenSlot # NoItem /\ localStorage'[RESET_TOKEN_KEY] = NoItem)
                       => \/ last'.ret = Failure(Expired)
                          \/ /\ last'.ret.success
                             /\ \E u \in 1..Len(StoredUsersNext) :
                                   /\ StoredUsersNext[u].email = TokenRecord.email
                                   /\ StoredUsersNext[u].password
                                        = last'.args.newPassword ]_vars

\* a reset consumed the token of a request made with another letter case
C32_Witness ==
    /\ last.op = "resetPassword"
    /\ last.ret.success
    /\ TokenSlot = NoItem
    /\ StoredUsers[4].email = EMAIL_USER
    /\ StoredUsers[4].password = PW_NEW
    /\ Len(inbox) = 2

(***************************************************************************)
(* C33: requestReset, verifyToken and resetPassword leave the session slot *)
(* unchanged: a session created before a password reset of the same user   *)
(* is still returned by getSession, and isLoggedIn is still true, as long  *)
(* as it was before the call.                                              *)
(***************************************************************************)
C33_ResetKeepsSession ==
    [][ ( \/ Called("handleForgotPassword")
          \/ Called("validateResetToken")
          \/ Called("resetPassword") )
        => /\ localStorage'[SESSION_KEY] = SessionSlot
           /\ getSession(localStorage', now').ret = getSession(localStorage, now).ret
           /\ isLoggedIn(localStorage', now').ret = isLoggedIn(localStorage, now).ret ]_vars

\* the password of the signed-in user was reset and the session is valid
C33_Witness ==
    /\ last.op = "resetPassword"
    /\ last.ret.success
    /\ StoredUsers[4].password = PW_NEW
    /\ SessionSlot # NoItem
    /\ SessionRecord.email = EMAIL_USER
    /\ getSession(localStorage, now).ret # null
    /\ isLoggedIn(localStorage, now).ret

(***************************************************************************)
(* C34: no operation changes the fixed seed list; a successful             *)
(* resetPassword performed while the users slot is absent changes the      *)
(* persisted users slot only, so that whenever the users slot is absent,   *)
(* login with the original password of each seed user succeeds.            *)
(***************************************************************************)
C34_SeedListFixed ==
    /\ DEMO_USERS = DEMO_USERS_INIT
    /\ localStorage[USERS_KEY] = NoItem
          => \A i \in 1..Len(DEMO_USERS_INIT) :
                validateLogin(localStorage, DEMO_USERS, DEMO_USERS_INIT[i].email,
                              DEMO_USERS_INIT[i].password).success

(***************************************************************************)
(* C35: protectRoute(allowedRoles) returns true only if a non-expired      *)
(* session exists and allowedRoles is empty or contains the role of the    *)
(* session; without a valid session it returns false and redirects to      *)
(* index.html; with a valid session whose role is not in a non-empty       *)
(* allowedRoles it returns false; also when the session expires between    *)
(* the two reads of the session, so that the session is the one that is    *)
(* valid at the last read of the call.                                     *)
(***************************************************************************)
C35_ProtectRoute ==
    [][ Called("protectRoute") =>
          LET session == getSession(localStorage, now').ret
              allowedRoles == last'.args.allowedRoles
              allowed == \E i \in 1..Len(allowedRoles) :
                            allowedRoles[i] = session.role
          IN  /\ last'.ret.value
                    => session # null /\ (allowedRoles = << >> \/ allowed)
              /\ session = null
                    => /\ ~last'.ret.value
                       /\ last'.ret.href # null
                       /\ last'.ret.href.value = "index.html"
              /\ (session # null /\ allowedRoles # << >> /\ ~allowed)
                    => ~last'.ret.value ]_vars

\* the permission list the specification gives for each role
FixedPermissions(role) ==
    IF role = "Super Admin"
    THEN {"events", "admins", "budget", "sales", "logs", "settings",
          "create-event", "edit-event", "delete-event"}
    ELSE IF role = "Admin" THEN {"events", "logs", "create-event", "edit-event"}
    ELSE IF role = "Viewer" THEN {"events", "logs"}
    ELSE IF role = "Organizer" THEN {"events", "create-event", "edit-event"}
    ELSE IF role = "Attendee" THEN {"events"}
    ELSE {}

(***************************************************************************)
(* C36: hasAccess(feature) returns true exactly when a non-expired session *)
(* exists and the feature is in the fixed permission list of the role of   *)
(* the session; it returns false for every feature without a session, with *)
(* an expired session, and with a role outside the five enumerated roles.  *)
(***************************************************************************)
C36_HasAccess ==
    [][ Called("hasAccess") =>
          LET session == getSession(localStorage, now).ret
          IN  last'.ret = [value |-> /\ session # null
                                     /\ last'.args.feature
                                            \in FixedPermissions(session.role)] ]_vars

\* the account the popup of the returning call resolved with is not the allowed one
OtherAccount ==
    /\ firebase'.user # null
    /\ toLowerCase(firebase'.user.email) # toLowerCase(ALLOWED_EMAIL)

SignedInOther(fb) ==
    /\ fb.currentUser # null
    /\ toLowerCase(fb.currentUser.email) # toLowerCase(ALLOWED_EMAIL)

(***************************************************************************)
(* C37 as stated: signInWithGoogle returns success only when the email of  *)
(* the signed-in account equals the allowed email ignoring letter case;    *)
(* for any other account auth.signOut is performed before the failure is   *)
(* returned and no non-allowed account is signed in when the call returns; *)
(* every outcome is a returned value with a success flag.                  *)
(***************************************************************************)
C37_SignInWithGoogle_Original ==
    [][ Called("signInWithGoogle") =>
          /\ "success" \in DOMAIN last'.ret
          /\ last'.ret.success
                => /\ firebase'.user # null
                   /\ toLowerCase(firebase'.user.email) = toLowerCase(ALLOWED_EMAIL)
          /\ OtherAccount
                => /\ ~last'.ret.success
                   /\ firebase.pc = "signOut"
                   /\ ~SignedInOther(firebase') ]_vars

(***************************************************************************)
(* C37 amended: signInWithGoogle returns success only when the email of    *)
(* the signed-in account equals the allowed email ignoring letter case;    *)
(* for any other account auth.signOut is called before the failure is      *)
(* returned; when that signOut succeeds the no-access failure is returned  *)
(* and nobody is signed in, when it is rejected the failure carries its    *)
(* error and the account stays signed in; every outcome is a returned      *)
(* value with a success flag.                                              *)
(***************************************************************************)
C37_SignInWithGoogle ==
    [][ Called("signInWithGoogle") =>
          /\ "success" \in DOMAIN last'.ret
          /\ last'.ret.success
                => /\ firebase'.user # null
                   /\ toLowerCase(firebase'.user.email) = toLowerCase(ALLOWED_EMAIL)
          /\ OtherAccount
                => /\ ~last'.ret.success
                   /\ firebase.pc = "signOut"
                   /\ IF last'.ret.error = NO_ACCESS
                      THEN firebase'.currentUser = null
                      ELSE firebase'.currentUser = firebase.currentUser ]_vars

\* a non-allowed account was signed out and the no-access failure returned
C37_Witness ==
    /\ last.op = "signInWithGoogle"
    /\ ~last.ret.success
    /\ last.ret.error = NO_ACCESS
    /\ firebase.user # null
    /\ toLowerCase(firebase.user.email) # toLowerCase(ALLOWED_EMAIL)
    /\ firebase.currentUser = null

====
